---- MODULE Spec2Model ----
(***************************************************************************)
(* A model of the school data pipeline of school-merit-visualizer, and of   *)
(* the address search of its map:                                          *)
(*   scripts/fetch-schools.ts  (the fetch phase: fetchWithRetry,           *)
(*                              fetchAllSchoolUnits, the batch loop, main) *)
(*   scripts/process-data.ts   (the normalization phase: main)             *)
(* These specifications are defined over one set of variables:             *)
(*   RetrySpec    one call of fetchWithRetry against an arbitrary server   *)
(*   Spec         one run of the fetch phase against an arbitrary server   *)
(*   ProcessSpec  runs of the normalization phase on a file system         *)
(*   ValueSpec    one call of a function of the value normalizer           *)
(*   CategorySpec one call of determineCategory                            *)
(*   PipelineSpec the fetch phase, then the normalization phase, against a *)
(*                server whose catalog may change between two pages        *)
(*   AggregateSpec one call of a function of the statistic aggregator      *)
(*   ListingSpec  fetchAllSchoolUnits alone, with fairness                 *)
(*   SearchSpec   the AddressSearch component of                           *)
(*                src/components/AddressSearch.tsx                         *)
(***************************************************************************)
EXTENDS Integers, Sequences, FiniteSets, TLC

VARIABLES
    rCall,      \* RetrySpec: the activation of fetchWithRetry under study
    rLog,       \* RetrySpec: what that call did so far (requests, responses, waits)
    pc,         \* Spec: where main() of the fetch phase stands
    page,       \* fetchAllSchoolUnits: let page
    totalPages, \* fetchAllSchoolUnits: let totalPages
    schools,    \* fetchAllSchoolUnits: const schools (accumulated compact units)
    listCall,   \* the fetchWithRetry activation of the current listing page
    pageLog,    \* the listing requests issued so far and what each page reported
    schoolsWithCoords, \* main: const schoolsWithCoords
    cursor,     \* main: the batch loop's i
    tasks,      \* the live detail/statistics fetches, keyed by <<index, piece>>
    rawData,    \* main: const rawData
    requested,  \* every per-entity URL requested so far
    files,      \* the files of src/data/raw and src/data
    exitCode,   \* the exit status of the process once it has ended
    stderr,     \* what the process printed with console.error
    faults,     \* how many non-success answers the server has given
    ppc,        \* ProcessSpec: where main() of the normalization phase stands
    normalized, \* normalization main: const schools
    clock,      \* the time that new Date() reads
    call,       \* FunctionSpec: the function called and its argument
    ret,        \* FunctionSpec: what the call returned
    search      \* SearchSpec: the state of the AddressSearch component

vars == <<rCall, rLog, pc, page, totalPages, schools, listCall, pageLog,
          schoolsWithCoords, cursor, tasks, rawData, requested, files, exitCode, stderr, faults, ppc, normalized,
          clock, call, ret, search>>

retryVars == <<rCall, rLog>>
fetchVars == <<pc, page, totalPages, schools, listCall, pageLog, schoolsWithCoords,
               cursor, tasks, rawData, requested, faults>>
procVars  == <<ppc, normalized, clock, call, ret, search>>
osVars    == <<files, exitCode, stderr>>

(***************************************************************************)
(* Bounds of the model.                                                    *)
(***************************************************************************)
\* RetrySpec tries every attempt budget 0..MaxRetries.
MaxRetries == 4

\* The server gives at most MaxFaults answers that are not a well-formed success.
MaxFaults == 3
\* The listing server reports total-pages values in 1..MaxPages.
MaxPages == 3
\* The listing server puts PerPage units on a page.
PerPage == 3
\* The group size of the batch loop: `const batchSize = 10` in main().  The model
\* runs the same loop with smaller groups, so that every completion order of
\* the 3 * batchSize concurrent fetches of a group can be enumerated.
batchSize == 1

(***************************************************************************)
(* A call of a pure function that has not been made, or has not returned.  *)
(***************************************************************************)
NoCall == [fn |-> "none"]
NoReturn == [kind |-> "pending"]
Return(value) == [kind |-> "returned", value |-> value]

(***************************************************************************)
(* The AddressSearch component as it is mounted, AddressSearch.tsx:32-38:  *)
(* its five pieces of state, the pending timer of debounceRef (or none),   *)
(* the calls of searchAddress that await the geocoding service, how many   *)
(* calls were made, and whether the user has cleared the field or selected *)
(* a result since the last keystroke.                                      *)
(***************************************************************************)
NoTimer == [pending |-> FALSE, value |-> <<>>]

\* error: null, or the message of line 89.
NoError == "null"
SearchFailed == "Could not search addresses"

Mounted ==
    [query |-> <<>>, results |-> <<>>, isLoading |-> FALSE, isOpen |-> FALSE,
     error |-> NoError, debounce |-> NoTimer, inFlight |-> {}, searches |-> 0,
     dismissed |-> FALSE]

(***************************************************************************)
(* Files and the process.                                                  *)
(***************************************************************************)
NoFile == [exists |-> FALSE, data |-> <<>>]
File(d) == [exists |-> TRUE, data |-> <<d>>]
Content(f) == f.data[1]

\* compact:   src/data/raw/compact-school-units.json
\* raw:       src/data/raw/all-school-data.json
\* meta:      src/data/raw/fetch-metadata.json
\* processed: src/data/schools.json
NoFiles == [compact |-> NoFile, raw |-> NoFile, meta |-> NoFile, processed |-> NoFile]

\* exitCode is <<>> while the process runs and <<status>> once it has ended.
Running == <<>>
Exited(status) == <<status>>

(***************************************************************************)
(* The HTTP server as the client sees it.                                  *)
(***************************************************************************)
NoBody == [kind |-> "none"]

\* fetch() either resolves with a response or rejects (a transport error).
NetErr == [status |-> 0, body |-> NoBody]

Statuses == {200, 204, 404, 429, 500}

IsTransportError(r) == r.status = 0

\* Response.ok: the status is in the range 200-299.
ResponseOk(r) == r.status \in 200..299

(***************************************************************************)
(* fetchWithRetry, fetch-schools.ts:90-112.  An activation is a record:    *)
(*   i        the loop variable                                            *)
(*   st       "fetch"     awaiting fetch(url)                              *)
(*            "wait429"   awaiting the 2000*(i+1) timer of line 99         *)
(*            "waitErr"   awaiting the 1000*(i+1) timer of line 108        *)
(*            "returned"  returned `resp`                                  *)
(*            "thrown"    threw `err`                                      *)
(*   timer    the delay of the timer being awaited, in ms                  *)
(***************************************************************************)
NoResponse == [status |-> -1, body |-> NoBody]

IdleCall == [url |-> [kind |-> "none"], retries |-> 0, i |-> 0, st |-> "idle",
             timer |-> 0, resp |-> NoResponse, err |-> ""]

\* The default value of the parameter `retries`.
retries == 3


\* The loop head `i < retries` with i = 0, and the throw after the loop.
FetchWithRetry(url, n) ==
    IF 0 < n
    THEN [url |-> url, retries |-> n, i |-> 0, st |-> "fetch",
          timer |-> 0, resp |-> NoResponse, err |-> ""]
    ELSE [url |-> url, retries |-> n, i |-> 0, st |-> "thrown",
          timer |-> 0, resp |-> NoResponse, err |-> "Max retries exceeded"]

\* The Error thrown inside the try block for a response that is neither ok nor
\* 429, and the rejection of fetch() itself.
ErrorOf(r) ==
    IF IsTransportError(r) THEN "fetch failed"
    ELSE IF r.status = 404 THEN "NOT_FOUND"
    ELSE IF r.status = 500 THEN "HTTP 500"
    ELSE "HTTP error"

RateLimitDelay(i) == 2000 * (i + 1)

\* A variant of ErrorDelay: a fixed delay, not scaled by the attempt number.
ErrorDelayFixed(i) == 1000

ErrorDelay(i) == 1000 * (i + 1)

\* The catch block, lines 106-109.
CatchError(c, e) ==
    IF c.i = c.retries - 1
    THEN [c EXCEPT !.st = "thrown", !.err = e]
    ELSE [c EXCEPT !.st = "waitErr", !.timer = ErrorDelay(c.i)]

\* The body of the try block once fetch(url) has settled with r, lines 93-105.
OnSettled(c, r) ==
    IF IsTransportError(r) THEN CatchError(c, ErrorOf(r))
    ELSE IF ResponseOk(r) THEN [c EXCEPT !.st = "returned", !.resp = r]
    ELSE IF r.status = 429
         THEN [c EXCEPT !.st = "wait429", !.timer = RateLimitDelay(c.i)]
    ELSE CatchError(c, ErrorOf(r))

\* A variant of OnTimer: the loop head compares with retries - 1.
OnTimerOffByOne(c) ==
    IF c.i + 1 < c.retries - 1
    THEN [c EXCEPT !.i = c.i + 1, !.st = "fetch", !.timer = 0]
    ELSE [c EXCEPT !.i = c.i + 1, !.st = "thrown", !.timer = 0,
                   !.err = "Max retries exceeded"]

\* A timer has fired: `continue` (line 100) or the end of the catch block, then
\* i++ and the loop head; line 111 when the loop is left.
OnTimer(c) ==
    IF c.i + 1 < c.retries
    THEN [c EXCEPT !.i = c.i + 1, !.st = "fetch", !.timer = 0]
    ELSE [c EXCEPT !.i = c.i + 1, !.st = "thrown", !.timer = 0,
                   !.err = "Max retries exceeded"]

InFlight(c) == c.st = "fetch"
Waiting(c)  == c.st \in {"wait429", "waitErr"}
Settled(c)  == c.st \in {"returned", "thrown"}

(***************************************************************************)
(* RetrySpec: one call fetchWithRetry(url, n) for every n in 0..MaxRetries *)
(* against a server that may answer each request with any status or with a *)
(* transport error.  rLog records, in order, each request issued, each     *)
(* outcome received and each timer the call waited for.                    *)
(***************************************************************************)
RetryUrl == [kind |-> "probe"]

Responses == {[status |-> s, body |-> NoBody] : s \in Statuses} \cup {NetErr}

Ev(e, n) == [ev |-> e, n |-> n]

\* What the transition of a call from c to d adds to the log: the timer it
\* starts and the request it issues.
Effects(c, d) ==
    (IF Waiting(d) /\ ~Waiting(c) THEN <<Ev("wait", d.timer)>> ELSE <<>>)
    \o (IF InFlight(d) /\ (~InFlight(c) \/ d.i # c.i) THEN <<Ev("request", d.i)>> ELSE <<>>)

RetryInit ==
    /\ \E n \in 0..MaxRetries :
          /\ rCall = FetchWithRetry(RetryUrl, n)
          /\ rLog = Effects(IdleCall, FetchWithRetry(RetryUrl, n))
    /\ pc = "idle" /\ page = 0 /\ totalPages = 0 /\ schools = <<>>
    /\ listCall = IdleCall /\ pageLog = <<>> /\ schoolsWithCoords = <<>> /\ cursor = 0
    /\ tasks = <<>> /\ rawData = <<>> /\ requested = {}
    /\ files = NoFiles
    /\ exitCode = Running /\ stderr = <<>> /\ faults = 0
    /\ ppc = "idle" /\ normalized = <<>>
    /\ clock = 0 /\ call = NoCall /\ ret = NoReturn /\ search = Mounted

\* fetch(url) settles: the server answers, or the transport fails.
RetrySettle ==
    /\ InFlight(rCall)
    /\ \E r \in Responses :
          /\ rCall' = OnSettled(rCall, r)
          /\ rLog' = rLog \o <<Ev("response", r.status)>> \o Effects(rCall, OnSettled(rCall, r))
    /\ UNCHANGED <<fetchVars, procVars, osVars>>

\* A setTimeout of the call fires.
RetryTimer ==
    /\ Waiting(rCall)
    /\ rCall' = OnTimer(rCall)
    /\ rLog' = rLog \o Effects(rCall, OnTimer(rCall))
    /\ UNCHANGED <<fetchVars, procVars, osVars>>

RetryNext == RetrySettle \/ RetryTimer

RetrySpec == RetryInit /\ [][RetryNext]_vars

\* Views of rLog.
RECURSIVE CountEv(_, _)
CountEv(log, e) ==
    IF log = <<>> THEN 0
    ELSE (IF Head(log).ev = e THEN 1 ELSE 0) + CountEv(Tail(log), e)

RECURSIVE SelectEv(_, _)
SelectEv(log, e) ==
    IF log = <<>> THEN <<>>
    ELSE (IF Head(log).ev = e THEN <<Head(log).n>> ELSE <<>>) \o SelectEv(Tail(log), e)

Requests  == CountEv(rLog, "request")
Received  == SelectEv(rLog, "response")
Waits     == SelectEv(rLog, "wait")

(***************************************************************************)
(* Strings that the code parses are sequences of characters.               *)
(***************************************************************************)
Digits == <<"0", "1", "2", "3", "4", "5", "6", "7", "8", "9">>

IsDigit(ch) == \E d \in 1..10 : Digits[d] = ch

DigitValue(ch) == (CHOOSE d \in 1..10 : Digits[d] = ch) - 1

\* The length of the longest prefix of s made of digits.
RECURSIVE DigitRun(_)
DigitRun(s) ==
    IF s # <<>> /\ IsDigit(Head(s)) THEN 1 + DigitRun(Tail(s)) ELSE 0

RECURSIVE DigitsValue(_, _)
DigitsValue(s, acc) ==
    IF s = <<>> THEN acc ELSE DigitsValue(Tail(s), 10 * acc + DigitValue(Head(s)))

Drop(s, n) == SubSeq(s, n + 1, Len(s))
Take(s, n) == SubSeq(s, 1, n)

NaN == [nan |-> TRUE, mant |-> 0, frac |-> 0]

\* parseFloat: an optional sign, digits, optionally a period and digits; the
\* longest such prefix is the number, mant / 10^frac, and NaN when the prefix
\* holds no digit.
ParseFloat(str) ==
    LET signed == str # <<>> /\ Head(str) \in {"-", "+"}
        neg    == str # <<>> /\ Head(str) = "-"
        s1     == IF signed THEN Tail(str) ELSE str
        n1     == DigitRun(s1)
        s2     == Drop(s1, n1)
        dot    == s2 # <<>> /\ Head(s2) = "."
        n2     == IF dot THEN DigitRun(Tail(s2)) ELSE 0
        all    == Take(s1, n1) \o (IF dot THEN Take(Tail(s2), n2) ELSE <<>>)
        m      == DigitsValue(all, 0)
    IN  IF n1 + n2 = 0 THEN NaN
        ELSE [nan |-> FALSE, mant |-> IF neg THEN 0 - m ELSE m, frac |-> n2]

IsNaN(x) == x.nan

IsZero(x) == ~x.nan /\ x.mant = 0

(***************************************************************************)
(* The catalog of the listing server.                                      *)
(***************************************************************************)
Codes == <<"A", "B", "C", "D", "E", "F", "G", "H", "I", "J">>

Unit(k, lat, lng, abroad) ==
    [schoolUnitCode |-> Codes[k], schoolUnitName |-> <<"S", "k", "o", "l", "a">>,
     wgs84Latitude |-> lat, wgs84Longitude |-> lng, abroadSchool |-> abroad]

GoodLat == <<"5", "9", ".", "3">>
GoodLng == <<"1", "8", ".", "0", "6">>

\* One more unit with usable coordinates than a group holds, and between them
\* a unit with latitude 0, one with an unparseable longitude and one abroad.
Catalog ==
    <<Unit(1, GoodLat, GoodLng, FALSE),
      Unit(2, <<"0", ".", "0">>, GoodLng, FALSE)>>
    \o [k \in 1..(batchSize - 1) |-> Unit(k + 2, GoodLat, GoodLng, FALSE)]
    \o <<Unit(batchSize + 2, GoodLat, <<>>, FALSE),
         Unit(batchSize + 3, GoodLat, GoodLng, FALSE),
         Unit(batchSize + 4, GoodLat, GoodLng, TRUE)>>

Min(a, b) == IF a < b THEN a ELSE b

\* The units of page p (from 0) of the listing.
CatalogPage(p) ==
    SubSeq(Catalog, Min(p * PerPage, Len(Catalog)) + 1, Min((p + 1) * PerPage, Len(Catalog)))

(***************************************************************************)
(* URLs and response bodies.                                               *)
(***************************************************************************)
\* The `size` query parameter of the listing URL.
PageSize == 100

\* `${API_BASE}/compact-school-units?coordinateSystemType=WGS84&page=${page}&size=100`
ListUrl(p) == [kind |-> "list", code |-> "", page |-> p, size |-> PageSize]

Pieces == {"details", "statistics", "gymnasiumStatistics"}

\* `${API_BASE}/school-units/${code}`, .../statistics/gr, .../statistics/gy
PieceUrl(piece, code) == [kind |-> piece, code |-> code, page |-> 0, size |-> 0]

\* A body that response.json() cannot parse.
BadBody == [kind |-> "bad"]

\* The JSON of a listing page: body._embedded.compactSchoolUnits and body.page,
\* either of which may be missing.
ListBody(hasUnits, units, hasPage, tp) ==
    [kind |-> "list", hasUnits |-> hasUnits, units |-> units,
     hasPage |-> hasPage, totalPages |-> tp]

\* The JSON of a per-entity resource: data.body, which may be missing.
\* `size` stands for the number of keys (of programMetrics entries) it holds.
PieceBody(piece, code) == [kind |-> piece, code |-> code, size |-> 1]
EmptyJson == [kind |-> "empty"]

Null == [kind |-> "null"]

Success(body) == [status |-> 200, body |-> body]

\* The answers that use up the server's budget of faults: every failure status,
\* a transport error, and a success whose body is unparseable or lacks the
\* expected content.
FaultyAnswers ==
    {[status |-> s, body |-> NoBody] : s \in {404, 429, 500}}
    \cup {NetErr, Success(BadBody), Success(EmptyJson)}

ListAnswers(p) ==
    {Success(ListBody(TRUE, CatalogPage(p), TRUE, tp)) : tp \in 1..MaxPages}
    \cup {Success(ListBody(TRUE, CatalogPage(p), FALSE, 0))}

FaultyListAnswers(p) ==
    FaultyAnswers \cup {Success(ListBody(FALSE, <<>>, TRUE, tp)) : tp \in 1..MaxPages}

PieceAnswers(url) == {Success(PieceBody(url.kind, url.code))}

(***************************************************************************)
(* fetchAllSchoolUnits, fetch-schools.ts:114-143.                          *)
(***************************************************************************)
\* data.body?._embedded?.compactSchoolUnits, or nothing to push.
BodyUnits(b) == IF b.kind = "list" /\ b.hasUnits THEN b.units ELSE <<>>

\* A variant of UpdateTotalPages: the page count of the response is never read.
KeepTotalPages(cur, b) == cur

\* if (data.body?.page) totalPages = data.body.page.totalPages;
UpdateTotalPages(cur, b) ==
    IF b.kind = "list" /\ b.hasPage THEN b.totalPages ELSE cur

\* What a page reported as total-pages, 0 when it carried none.
Reported(b) == IF b.kind = "list" /\ b.hasPage THEN b.totalPages ELSE 0

\* A variant of LoopContinues: the loop goes one page further.
LoopContinuesInclusive(p, tp) == p <= tp

\* The loop head: while (page < totalPages).
LoopContinues(p, tp) == p < tp

(***************************************************************************)
(* The per-entity fetchers, fetch-schools.ts:145-176, and the filter.      *)
(***************************************************************************)
\* A variant of PieceValue: data.body is returned as it is, and a missing body
\* as an empty object.
PieceValueRaw(c) ==
    IF c.st = "returned" /\ c.resp.body.kind # "bad"
    THEN (IF c.resp.body.kind \in Pieces THEN c.resp.body
          ELSE [kind |-> c.url.kind, code |-> c.url.code, size |-> 0])
    ELSE Null

\* What fetchSchoolDetails / fetchGrundskoleStatistics / fetchGymnasiumStatistics
\* return once their fetchWithRetry call c has settled: data.body || null, and
\* null from the catch block (the call threw, or response.json() threw).
PieceValue(c) ==
    IF c.st = "returned" /\ c.resp.body.kind \in Pieces THEN c.resp.body ELSE Null

\* The frame of a settled call as the fetcher's try/catch sees it: the response
\* it returned, or that it threw (the catch block binds no error).
Outcome(c) == [c EXCEPT !.i = 0, !.timer = 0, !.err = ""]

\* A live fetcher: pending until its call has settled.
Task(c) ==
    IF Settled(c) THEN [st |-> "resolved", call |-> Outcome(c), value |-> PieceValue(c)]
    ELSE [st |-> "pending", call |-> c, value |-> Null]

hasValidCoordinates(school) ==
    LET lat == ParseFloat(school.wgs84Latitude)
        lng == ParseFloat(school.wgs84Longitude)
    IN  ~IsNaN(lat) /\ ~IsNaN(lng) /\ ~IsZero(lat) /\ ~IsZero(lng) /\ ~school.abroadSchool

\* allSchools.filter(hasValidCoordinates)
FilterValid(allSchools) == SelectSeq(allSchools, hasValidCoordinates)

(***************************************************************************)
(* main of the fetch phase, fetch-schools.ts:184-284.                      *)
(***************************************************************************)
\* The indexes (from 1) of schoolsWithCoords.slice(i, i + batchSize).
\* A variant of Slice: the end index is one too far.
SliceWide(list, i) == (i + 1)..Min(i + batchSize + 1, Len(list))

Slice(list, i) == (i + 1)..Min(i + batchSize, Len(list))
Batch(i) == Slice(schoolsWithCoords, i)

GroupOf(j) == (j - 1) \div batchSize

BatchKeys(i) == Batch(i) \X Pieces

Fetcher(piece, school) == Task(FetchWithRetry(PieceUrl(piece, school.schoolUnitCode), retries))

\* batch.map(...): the three fetchers of every school of the group are called,
\* and each calls fetchWithRetry, which issues its first request at once.
StartBatch(list, i) ==
    [k \in Slice(list, i) \X Pieces |-> Fetcher(k[2], list[k[1]])]

BatchUrls(list, i) ==
    {PieceUrl(k[2], list[k[1]].schoolUnitCode) : k \in Slice(list, i) \X Pieces}

\* A variant of BatchResolved: the group is left as soon as one fetcher has
\* resolved (Promise.race).
BatchResolvedAny(i) == \E k \in BatchKeys(i) : tasks[k].st = "resolved"

\* await Promise.all(...): every fetcher of the group has resolved.
BatchResolved(i) == \A k \in BatchKeys(i) : tasks[k].st = "resolved"

\* A variant of RawRecord: the two statistics pieces change places.
RawRecordCrossed(j) ==
    [schoolUnitCode      |-> schoolsWithCoords[j].schoolUnitCode,
     compactData         |-> schoolsWithCoords[j],
     details             |-> tasks[<<j, "details">>].value,
     statistics          |-> tasks[<<j, "gymnasiumStatistics">>].value,
     gymnasiumStatistics |-> tasks[<<j, "statistics">>].value]

\* The record the inner async function returns for the school at index j.
RawRecord(j) ==
    [schoolUnitCode      |-> schoolsWithCoords[j].schoolUnitCode,
     compactData         |-> schoolsWithCoords[j],
     details             |-> tasks[<<j, "details">>].value,
     statistics          |-> tasks[<<j, "statistics">>].value,
     gymnasiumStatistics |-> tasks[<<j, "gymnasiumStatistics">>].value]

Results(i) == [n \in 1..Cardinality(Batch(i)) |-> RawRecord(i + n)]

Count(seq, P(_)) == Len(SelectSeq(seq, P))

\* raw.statistics && Object.keys(raw.statistics).length > 0
HasGrundskoleData(raw) == raw.statistics # Null /\ raw.statistics.size > 0
\* raw.gymnasiumStatistics && programMetrics && programMetrics.length > 0
HasGymnasiumData(raw) == raw.gymnasiumStatistics # Null /\ raw.gymnasiumStatistics.size > 0

FetchMetadata(raws) ==
    [fetchedAt |-> clock,
     totalSchools |-> Len(raws),
     withGrundskoleStats |-> Count(raws, HasGrundskoleData),
     withGymnasiumStats |-> Count(raws, HasGymnasiumData)]

\* The exit status of node once main() has settled and nothing is pending:
\* process.exitCode was never set, and main().catch(console.error) handles the
\* rejection.
ExitStatusAfterMain(rejected) == 0

(***************************************************************************)
(* Spec: one run of the fetch phase.                                       *)
(*   pc = "start"       main() has not run                                 *)
(*        "listing"     fetchAllSchoolUnits awaits fetchWithRetry(url)     *)
(*        "pageDelay"   fetchAllSchoolUnits awaits its 50 ms timer         *)
(*        "listed"      fetchAllSchoolUnits has left its loop              *)
(*        "batch"       main awaits Promise.all of the current group       *)
(*        "batchDelay"  main awaits its 100 ms timer                       *)
(*        "done"        main() resolved                                    *)
(*        "failed"      main() rejected                                    *)
(***************************************************************************)
Init ==
    /\ rCall = IdleCall /\ rLog = <<>>
    /\ pc = "start" /\ page = 0 /\ totalPages = 0 /\ schools = <<>>
    /\ listCall = IdleCall /\ pageLog = <<>> /\ schoolsWithCoords = <<>> /\ cursor = 0
    /\ tasks = <<>> /\ rawData = <<>> /\ requested = {}
    /\ files = NoFiles
    /\ exitCode = Running /\ stderr = <<>> /\ faults = 0
    /\ ppc = "idle" /\ normalized = <<>>
    /\ clock = 0 /\ call = NoCall /\ ret = NoReturn /\ search = Mounted

\* main() rejects with err: .catch(console.error) prints it and the process ends.
MainRejects(err) ==
    /\ pc' = "failed"
    /\ stderr' = Append(stderr, err)
    /\ exitCode' = Exited(ExitStatusAfterMain(TRUE))

\* main() up to the first request of fetchAllSchoolUnits.
Start ==
    /\ pc = "start"
    /\ page' = 0
    /\ totalPages' = 1
    /\ schools' = <<>>
    /\ listCall' = FetchWithRetry(ListUrl(0), retries)
    /\ requested' = requested \cup {ListUrl(0)}
    /\ pc' = "listing"
    /\ UNCHANGED <<retryVars, procVars, osVars, pageLog, schoolsWithCoords, cursor, tasks,
                   rawData, faults>>

\* A variant of ListingFailed: the loop is left and the pages accumulated so far
\* are returned.
ListingFailedPartial(c, err) ==
    /\ pc' = "listed"
    /\ listCall' = c
    /\ UNCHANGED <<page, totalPages, schools, pageLog, osVars>>

\* The await of line 123 or 124 throws: fetchAllSchoolUnits has no try block, so
\* it rejects, and so does main.
ListingFailed(c, err) ==
    /\ MainRejects(err)
    /\ listCall' = c
    /\ UNCHANGED <<page, totalPages, schools, pageLog, files>>

\* The listing call has moved to c: it goes on, it threw, or it returned a
\* response, whose JSON is read (response.json() throws on an unparseable
\* body), pushed and counted.
ListingStep(c) ==
    IF c.st = "thrown" THEN ListingFailed(c, c.err)
    ELSE IF c.st = "returned" /\ c.resp.body.kind = "bad" THEN ListingFailed(c, "Unexpected token")
    ELSE IF c.st = "returned" THEN
        /\ schools' = schools \o BodyUnits(c.resp.body)
        /\ totalPages' = UpdateTotalPages(totalPages, c.resp.body)
        /\ page' = page + 1
        /\ pageLog' = Append(pageLog, Reported(c.resp.body))
        /\ listCall' = c
        /\ pc' = "pageDelay"
        /\ UNCHANGED <<osVars>>
    ELSE
        /\ listCall' = c
        /\ UNCHANGED <<pc, page, totalPages, schools, pageLog, osVars>>

\* The server answers the listing request in flight.
ListSettle ==
    /\ pc = "listing" /\ InFlight(listCall)
    /\ \/ \E r \in ListAnswers(page) :
             /\ ListingStep(OnSettled(listCall, r))
             /\ UNCHANGED faults
       \/ /\ faults < MaxFaults
          /\ faults' = faults + 1
          /\ \E r \in FaultyListAnswers(page) : ListingStep(OnSettled(listCall, r))
    /\ UNCHANGED <<retryVars, procVars, schoolsWithCoords, cursor, tasks, rawData, requested>>

\* A backoff timer of the listing call fires.
ListTimer ==
    /\ pc = "listing" /\ Waiting(listCall)
    /\ ListingStep(OnTimer(listCall))
    /\ UNCHANGED <<retryVars, procVars, schoolsWithCoords, cursor, tasks, rawData,
                   requested, faults>>

\* The 50 ms timer fires: the loop head, then the next request or the return.
PageTimer ==
    /\ pc = "pageDelay"
    /\ IF LoopContinues(page, totalPages)
       THEN /\ listCall' = FetchWithRetry(ListUrl(page), retries)
            /\ requested' = requested \cup {ListUrl(page)}
            /\ pc' = "listing"
       ELSE /\ pc' = "listed"
            /\ UNCHANGED <<listCall, requested>>
    /\ UNCHANGED <<retryVars, procVars, osVars, page, totalPages, schools, pageLog,
                   schoolsWithCoords, cursor, tasks, rawData, faults>>

\* A variant of WriteSnapshot: the fetch metadata is written, the raw snapshot
\* is not.
WriteMetadataOnly(fs, raws) == [fs EXCEPT !.meta = File(FetchMetadata(raws))]

\* Lines 261-275: the raw snapshot is written, then the fetch metadata.
WriteSnapshot(fs, raws) ==
    [[fs EXCEPT !.raw = File(raws)] EXCEPT !.meta = File(FetchMetadata(raws))]

\* The end of main(): the raw snapshot, then the fetch metadata, are written.
Finish(fs, raws) ==
    /\ files' = WriteSnapshot(fs, raws)
    /\ pc' = "done"
    /\ exitCode' = Exited(ExitStatusAfterMain(FALSE))

\* fetchAllSchoolUnits returns: main writes the compact catalog, filters it and
\* starts the first group, or ends at once when no school passes the filter.
\* The locals of fetchAllSchoolUnits are gone.
AfterListing ==
    /\ pc = "listed"
    /\ page' = 0 /\ totalPages' = 0 /\ pageLog' = <<>> /\ listCall' = IdleCall
    /\ schoolsWithCoords' = FilterValid(schools)
    /\ cursor' = 0
    /\ IF 0 < Len(schoolsWithCoords')
       THEN /\ files' = [files EXCEPT !.compact = File(schools)]
            /\ tasks' = StartBatch(schoolsWithCoords', 0)
            /\ requested' = requested \cup BatchUrls(schoolsWithCoords', 0)
            /\ pc' = "batch"
            /\ UNCHANGED <<exitCode>>
       ELSE /\ Finish([files EXCEPT !.compact = File(schools)], rawData)
            /\ UNCHANGED <<tasks, requested>>
    /\ UNCHANGED <<retryVars, procVars, stderr, schools, rawData, faults>>

\* The server answers the request of fetcher k.
TaskSettle(k) ==
    /\ tasks[k].st = "pending" /\ InFlight(tasks[k].call)
    /\ \/ \E r \in PieceAnswers(tasks[k].call.url) :
             /\ tasks' = [tasks EXCEPT ![k] = Task(OnSettled(tasks[k].call, r))]
             /\ UNCHANGED faults
       \/ /\ faults < MaxFaults
          /\ faults' = faults + 1
          /\ \E r \in FaultyAnswers :
                tasks' = [tasks EXCEPT ![k] = Task(OnSettled(tasks[k].call, r))]
    /\ UNCHANGED <<retryVars, procVars, osVars, pc, page, totalPages, schools,
                   listCall, pageLog, schoolsWithCoords, cursor, rawData, requested>>

\* A backoff timer of fetcher k fires.
TaskTimer(k) ==
    /\ tasks[k].st = "pending" /\ Waiting(tasks[k].call)
    /\ tasks' = [tasks EXCEPT ![k] = Task(OnTimer(tasks[k].call))]
    /\ requested' = requested \cup {tasks[k].call.url}
    /\ UNCHANGED <<retryVars, procVars, osVars, pc, page, totalPages, schools,
                   listCall, pageLog, schoolsWithCoords, cursor, rawData, faults>>

\* Promise.all of the group resolves: the results are pushed onto rawData in
\* the order of the group, and main waits 100 ms.
BatchCollect ==
    /\ pc = "batch"
    /\ BatchResolved(cursor)
    /\ rawData' = rawData \o Results(cursor)
    /\ pc' = "batchDelay"
    /\ UNCHANGED <<retryVars, procVars, osVars, page, totalPages, schools, listCall,
                   pageLog, schoolsWithCoords, cursor, tasks, requested, faults>>

\* The fetchers that have not resolved stay live.
Unresolved == {k \in DOMAIN tasks : tasks[k].st = "pending"}

\* The 100 ms timer fires: i += batchSize, then the next group or the end.
BatchTimer ==
    /\ pc = "batchDelay"
    /\ cursor' = cursor + batchSize
    /\ IF cursor + batchSize < Len(schoolsWithCoords)
       THEN /\ tasks' = [k \in Unresolved \cup BatchKeys(cursor + batchSize) |->
                            IF k \in Unresolved THEN tasks[k]
                            ELSE Fetcher(k[2], schoolsWithCoords[k[1]])]
            /\ requested' = requested \cup BatchUrls(schoolsWithCoords, cursor + batchSize)
            /\ pc' = "batch"
            /\ UNCHANGED <<files, exitCode>>
       ELSE /\ Finish(files, rawData)
            /\ tasks' = [k \in Unresolved |-> tasks[k]]
            /\ UNCHANGED <<requested>>
    /\ UNCHANGED <<retryVars, procVars, stderr, page, totalPages, schools, listCall,
                   pageLog, schoolsWithCoords, rawData, faults>>

Next ==
    \/ Start
    \/ ListSettle
    \/ ListTimer
    \/ PageTimer
    \/ AfterListing
    \/ \E k \in DOMAIN tasks : TaskSettle(k)
    \/ \E k \in DOMAIN tasks : TaskTimer(k)
    \/ BatchCollect
    \/ BatchTimer

Spec == Init /\ [][Next]_vars

(***************************************************************************)
(* Properties of fetchWithRetry, checked under RetrySpec.                  *)
(***************************************************************************)
Front(seq) == SubSeq(seq, 1, Len(seq) - 1)
Last(seq) == seq[Len(seq)]

AllRateLimited(seq) == \A j \in 1..Len(seq) : seq[j] = 429

\* Every outcome is a transport error or a status that is neither 2xx nor 429
\* nor 404.
AllHardFailures(seq) ==
    \A j \in 1..Len(seq) : seq[j] \notin (200..299) \cup {429, 404}

\* C1 (as claimed): a 404 on the first attempt ends the call at once, whatever
\* the attempt budget: it throws NOT_FOUND after exactly one request and
\* without any backoff wait.
C1_NotFoundFailsImmediately ==
    (rCall.retries >= 1 /\ Received # <<>> /\ Received[1] = 404)
        => /\ rCall.st = "thrown"
           /\ rCall.err = "NOT_FOUND"
           /\ Requests = 1
           /\ Waits = <<>>

\* C5: for every budget N and every k < N, k consecutive 429 responses leave
\* the call trying, and a 2xx response after them makes it return that response
\* after k + 1 requests; with the default budget, 429, 429, 200 returns the 200.
C5_RateLimitedThenSuccess ==
    /\ (AllRateLimited(Received) /\ Len(Received) < rCall.retries)
          => rCall.st \in {"fetch", "wait429"}
    /\ (Received # <<>> /\ AllRateLimited(Front(Received)) /\ Last(Received) \in 200..299)
          => /\ rCall.st = "returned"
             /\ rCall.resp.status = Last(Received)
             /\ Requests = Len(Received)

C5_Witness ==
    /\ rCall.retries = retries
    /\ Received = <<429, 429, 200>>
    /\ rCall.st = "returned"

\* C6: the call never issues more than N requests and returns the first 2xx
\* response it receives; when every attempt is a hard failure (a transport error
\* or a status other than 2xx, 429, 404) it waits 1000 ms * k after the k-th
\* failure for k < N, and after the N-th it throws that failure with no further
\* wait and no further request.
C6_BoundedAttempts ==
    /\ Requests <= rCall.retries
    /\ \A j \in 1..Len(Received) :
          Received[j] \in 200..299
             => j = Len(Received) /\ rCall.st = "returned" /\ rCall.resp.status = Received[j]
    /\ (rCall.retries >= 1 /\ AllHardFailures(Received))
          => LET k == Len(Received)
                 N == rCall.retries
             IN  /\ Waits = [j \in 1..Min(k, N - 1) |-> 1000 * j]
                 /\ k < N => rCall.st \in {"fetch", "waitErr"} /\ Requests \in {k, k + 1}
                 /\ k = N => /\ rCall.st = "thrown"
                             /\ rCall.err = (IF Last(Received) = 0 THEN "fetch failed" ELSE "HTTP 500")
                             /\ Requests = N

C6_Witness ==
    /\ rCall.retries = retries
    /\ Received = <<500, 0, 500>>
    /\ rCall.st = "thrown"
    /\ Waits = <<1000, 2000>>

\* The number of outcomes that are hard failures: a transport error or a
\* status that is neither 2xx nor 429 nor 404.
HardFailures(seq) ==
    Cardinality({j \in 1..Len(seq) : seq[j] \notin (200..299) \cup {429, 404}})

\* C24: a 429 response is followed by a wait of 2 s times the attempt number
\* and by a retry that does not consume a hard failure: while fewer than N
\* outcomes were hard failures (and none a 404 or a 2xx) the call has not
\* failed, however many 429 responses it met.
C24_RateLimitKeepsBudget ==
    /\ rCall.st = "wait429" => rCall.timer = 2000 * Len(Received)
    /\ (/\ rCall.retries >= 1
        /\ \A j \in 1..Len(Received) : Received[j] \notin (200..299) \cup {404}
        /\ HardFailures(Received) < rCall.retries)
          => rCall.st # "thrown"

\* What the loop does: a 429 response is followed by a wait of 2 s times the
\* attempt number, and every response, a 429 included, uses up one of the N
\* attempts.
C24_RateLimitUsesAttempt ==
    /\ rCall.st = "wait429" => rCall.timer = 2000 * Len(Received)
    /\ (rCall.retries >= 1 /\ rCall.st = "thrown" /\ rCall.err = "Max retries exceeded")
          => Len(Received) = rCall.retries /\ Last(Received) = 429

(***************************************************************************)
(* Properties of the fetch phase, checked under Spec.                      *)
(***************************************************************************)
ListingUrls == {u \in requested : u.kind = "list"}
EntityUrls  == {u \in requested : u.kind \in Pieces}

\* The total-pages value in force after the pages of log: the one reported by
\* the last page that carried one, and the initial 1 when none did.
RECURSIVE LatestReported(_)
LatestReported(log) ==
    IF log = <<>> THEN 1
    ELSE IF Last(log) # 0 THEN Last(log)
    ELSE LatestReported(Front(log))

RECURSIVE FirstReported(_)
FirstReported(log) ==
    IF log = <<>> THEN 0
    ELSE IF Head(log) # 0 THEN Head(log)
    ELSE FirstReported(Tail(log))

\* C2 (as claimed): the number of listing pages requested is the total-pages
\* value reported by the first page that carried one, whatever later pages
\* reported.
C2_FirstReportedFixesPageCount ==
    (pc = "listed" /\ FirstReported(pageLog) # 0)
        => Cardinality(ListingUrls) = FirstReported(pageLog)

\* C2 (amended): pages of size 100 are requested from page 0 upwards, page k
\* is requested only while k is below the total-pages value most recently
\* reported (1 before any page reported one), and the loop is left when the
\* page index has reached the value most recently reported.
C2_StopsAtLatestReported ==
    /\ pc \in {"listing", "pageDelay", "listed"}
          => ListingUrls = {ListUrl(k) : k \in 0..(Cardinality(ListingUrls) - 1)}
    /\ pc = "listing"
          => /\ page = Len(pageLog)
             /\ ListUrl(page) \in ListingUrls
             /\ page < LatestReported(pageLog)
    /\ pc = "listed"
          => /\ page = Len(pageLog)
             /\ Cardinality(ListingUrls) = page
             /\ page >= LatestReported(pageLog)

\* The first page reported 3 pages, the second reported 1, and the loop was left
\* after two pages.
C2_Witness ==
    /\ pc = "listed"
    /\ pageLog = <<3, 1>>
    /\ ListingUrls = {ListUrl(0), ListUrl(1)}

NoOutputFile ==
    ~files.compact.exists /\ ~files.raw.exists /\ ~files.meta.exists

\* C3: when a listing page fails after the retries of the client, the run
\* aborts: main() rejects, no detail or statistics request has been or will be
\* issued, and none of the three output files is written.
C3_ListingFailureAborts ==
    /\ (listCall.st = "thrown" \/ (listCall.st = "returned" /\ listCall.resp.body.kind = "bad"))
          => pc = "failed"
    /\ pc = "failed"
          => /\ EntityUrls = {}
             /\ tasks = <<>>
             /\ rawData = <<>>
             /\ NoOutputFile
             /\ ~ENABLED Next

\* The second page failed three times after the first page was read.
C3_Witness ==
    /\ pc = "failed"
    /\ listCall.st = "thrown"
    /\ listCall.url = ListUrl(1)
    /\ schools # <<>>

\* C4 (as claimed): when main() of the fetch phase rejects, the process prints
\* a diagnostic and ends with a non-zero exit status.
C4_FatalExitIsNonZero ==
    pc = "failed" => /\ stderr # <<>>
                     /\ exitCode # Running
                     /\ exitCode # Exited(0)

\* How a resolved fetcher must have resolved, read off the settled call.
ResolvedAsClaimed(k) ==
    LET t == tasks[k]
        own == PieceBody(k[2], schoolsWithCoords[k[1]].schoolUnitCode)
    IN  /\ t.call.st = "thrown" => t.value = Null
        /\ (t.call.st = "returned" /\ t.call.resp.body \in {BadBody, EmptyJson}) => t.value = Null
        /\ (t.call.st = "returned" /\ t.call.resp.body = own) => t.value = own
        /\ t.value \in {Null, own}

\* C7: the three fetchers of an entity resolve independently: a piece whose
\* call threw (404, retries exhausted) or whose body could not be used is null
\* in the record of the entity, a piece that was fetched keeps its body, and
\* no such failure makes main() reject.
C7_PiecesResolveIndependently ==
    /\ \A k \in DOMAIN tasks : tasks[k].st = "resolved" => ResolvedAsClaimed(k)
    /\ pc = "batchDelay"
          => \A j \in Batch(cursor) :
                /\ j <= Len(rawData)
                /\ rawData[j].schoolUnitCode = schoolsWithCoords[j].schoolUnitCode
                /\ \A p \in Pieces : tasks[<<j, p>>].st = "resolved"
                /\ rawData[j].details = tasks[<<j, "details">>].value
                /\ rawData[j].statistics = tasks[<<j, "statistics">>].value
                /\ rawData[j].gymnasiumStatistics = tasks[<<j, "gymnasiumStatistics">>].value
    /\ EntityUrls # {} => pc \in {"batch", "batchDelay", "done"}

\* The details call threw after its retries, the two statistics were fetched.
C7_Witness ==
    /\ pc = "batchDelay"
    /\ cursor = 0
    /\ tasks[<<1, "details">>].call.st = "thrown"
    /\ rawData[1].details = Null
    /\ rawData[1].gymnasiumStatistics # Null
    /\ rawData[1].statistics = PieceBody("statistics", schoolsWithCoords[1].schoolUnitCode)

\* The index in schoolsWithCoords of the entity a URL names.
IndexOf(u) == CHOOSE j \in 1..Len(schoolsWithCoords) : schoolsWithCoords[j].schoolUnitCode = u.code

\* C8: the entities are taken in consecutive groups of batchSize, and no
\* request for an entity of a group is issued before every fetcher of the
\* group before it has resolved and its records are collected.
C8_GroupsDoNotOverlap ==
    /\ \A k \in DOMAIN tasks : k \in BatchKeys(cursor)
    /\ pc = "batch" => DOMAIN tasks = BatchKeys(cursor) /\ cursor = Len(rawData)
    /\ \A u \in EntityUrls :
          /\ GroupOf(IndexOf(u)) * batchSize <= Len(rawData)
          /\ GroupOf(IndexOf(u)) * batchSize <= cursor
    /\ \A k \in DOMAIN tasks : tasks[k].st = "pending" => pc = "batch"

\* A fetcher of the second group is retrying while the others are in flight.
C8_Witness ==
    /\ pc = "batch"
    /\ cursor = batchSize
    /\ Len(rawData) = batchSize
    /\ \E k \in DOMAIN tasks : tasks[k].st = "pending" /\ tasks[k].call.i > 0
    /\ \E k \in DOMAIN tasks : tasks[k].st = "resolved"

InFlightCount ==
    Cardinality({k \in DOMAIN tasks : tasks[k].st = "pending" /\ InFlight(tasks[k].call)})
    + (IF InFlight(listCall) THEN 1 ELSE 0)

\* C9: at most batchSize * (1 + number of statistics stages) requests are in
\* flight at any time, retries included, and a listing request is never in
\* flight together with a detail or statistics request.
C9_InFlightBound ==
    /\ InFlightCount <= batchSize * Cardinality(Pieces)
    /\ InFlight(listCall) => InFlightCount = 1

\* A full group in flight, one of its requests being a retry.
C9_Witness ==
    /\ InFlightCount = batchSize * Cardinality(Pieces)
    /\ \E k \in DOMAIN tasks : tasks[k].call.i > 0

\* An entry of the catalog passes the validity filter: its latitude and its
\* longitude parse to numbers that are not zero, and it is not abroad.
PassesFilter(unit) ==
    LET lat == ParseFloat(unit.wgs84Latitude)
        lng == ParseFloat(unit.wgs84Longitude)
    IN  /\ unit.abroadSchool = FALSE
        /\ ~lat.nan /\ lat.mant # 0
        /\ ~lng.nan /\ lng.mant # 0

\* The codes of the catalog's entries that pass the filter.
ValidCodes ==
    {Catalog[j].schoolUnitCode : j \in {i \in 1..Len(Catalog) : PassesFilter(Catalog[i])}}

C29_FilesInOrder ==
    /\ files.compact.exists
          => /\ pc \in {"batch", "batchDelay", "done"}
             /\ Content(files.compact) = schools
    /\ EntityUrls # {} => files.compact.exists
    /\ files.raw.exists
          => /\ pc = "done"
             /\ files.compact.exists
             /\ Len(Content(files.raw)) = Len(schoolsWithCoords)
             /\ \A k \in DOMAIN tasks : tasks[k].st = "resolved"
    /\ files.meta.exists
          => /\ files.raw.exists
             /\ Content(files.meta).totalSchools = Len(Content(files.raw))

\* The three files exist, and the raw snapshot holds two records.
C29_Witness ==
    /\ pc = "done"
    /\ files.compact.exists /\ files.raw.exists /\ files.meta.exists
    /\ Len(Content(files.raw)) = 2
    /\ Content(files.meta).totalSchools = 2
    /\ Len(Content(files.compact)) > 2

(***************************************************************************)
(* Values decoded from JSON in the normalization phase.  A string is a     *)
(* sequence of characters, an array a sequence, a number what ParseFloat   *)
(* returns.  An object is a record of its keys and of `kind`, which is not *)
(* a key; null is the object Null.  A value that may be missing (a         *)
(* property read, an optional argument) is Undefined or Defined(v).        *)
(***************************************************************************)
Undefined == [kind |-> "undefined"]
Defined(v) == [kind |-> "defined", v |-> v]

\* !v for an optional array or object.
Missing(v) == v = Undefined

\* obj.name for an object that exists: undefined when it has no such key (a
\* key that holds null is not told apart from a key that is not there).
Get(obj, name) == IF name \in DOMAIN obj THEN Defined(obj[name]) ELSE Undefined

\* obj?.name
OptGet(obj, name) == IF obj = Null THEN Undefined ELSE Get(obj, name)

\* v || []
OrEmpty(v) == IF Missing(v) THEN <<>> ELSE v.v

\* A variant of KeysLength: no key is counted.
KeysLengthNone(obj) == 0

\* Object.keys(obj).length; a body that the fetch phase passed through without
\* looking into it carries the number of its keys as `size`.
KeysLength(obj) ==
    IF "size" \in DOMAIN obj THEN obj.size ELSE Cardinality(DOMAIN obj \ {"kind"})

\* array.includes(x)
ArrayIncludes(array, x) == \E i \in 1..Len(array) : array[i] = x

\* string.includes(sub)
StringIncludes(s, sub) ==
    \E i \in 1..(Len(s) - Len(sub) + 1) : SubSeq(s, i, i + Len(sub) - 1) = sub

\* The letters that toLowerCase changes, among those the names tried hold.
\* The characters that are not ASCII are written as a word.
UpperCase == <<"A", "F", "G", "H", "S", "O-umlaut">>
LowerCase == <<"a", "f", "g", "h", "s", "o-umlaut">>

ToLowerChar(ch) ==
    IF \E i \in 1..Len(UpperCase) : UpperCase[i] = ch
    THEN LowerCase[CHOOSE i \in 1..Len(UpperCase) : UpperCase[i] = ch]
    ELSE ch

\* string.toLowerCase()
ToLowerCase(s) == [i \in 1..Len(s) |-> ToLowerChar(s[i])]

\* string.replace(a, b) with a string pattern: the first occurrence only.
ReplaceFirst(s, a, b) ==
    IF \E i \in 1..Len(s) : s[i] = a
    THEN [s EXCEPT ![CHOOSE i \in 1..Len(s) : s[i] = a /\ \A j \in 1..(i - 1) : s[j] # a] = b]
    ELSE s

Zero == [nan |-> FALSE, mant |-> 0, frac |-> 0]

\* The power of ten 10^n.
RECURSIVE Pow10(_)
Pow10(n) == IF n = 0 THEN 1 ELSE 10 * Pow10(n - 1)

\* a - b for two numbers, as an integer of the sign of the difference: both
\* are brought to the same number of decimals.
Minus(a, b) ==
    LET f == IF a.frac < b.frac THEN b.frac ELSE a.frac
    IN  a.mant * Pow10(f - a.frac) - b.mant * Pow10(f - b.frac)

NumEq(a, b) == Minus(a, b) = 0

(***************************************************************************)
(* The value normalizer, fetch-schools.ts:727-755.                         *)
(***************************************************************************)
\* parseSwedishNumber: null, or the number parseFloat reads.
parseSwedishNumber(value) ==
    IF Missing(value) \/ value.v = <<>> \/ value.v = <<".">> \/ value.v = <<"-">> THEN Null
    ELSE LET parsed == ParseFloat(ReplaceFirst(value.v, ",", "."))
         IN  IF IsNaN(parsed) THEN Null ELSE parsed

\* A variant of MostRecentFrom: the marker of the entry is not looked at.
MostRecentUnmarked(data) ==
    IF data = <<>> THEN Null ELSE parseSwedishNumber(Get(Head(data), "value"))

\* The for loop of getMostRecentValue.
RECURSIVE MostRecentFrom(_)
MostRecentFrom(data) ==
    IF data = <<>> THEN Null
    ELSE IF Head(data).valueType = "EXISTS" THEN parseSwedishNumber(Get(Head(data), "value"))
    ELSE MostRecentFrom(Tail(data))

getMostRecentValue(data) ==
    IF Missing(data) \/ Len(data.v) = 0 THEN Null ELSE MostRecentFrom(data.v)

IsExisting(entry) == entry.valueType = "EXISTS"

\* x || 0 for a number or null.
OrZero(x) == IF x = Null \/ IsZero(x) THEN Zero ELSE x

HistoryEntry(entry) ==
    [year |-> entry.timePeriod, value |-> OrZero(parseSwedishNumber(Get(entry, "value")))]

\* The length of the history: .slice(0, 5)
HistoryLength == 5

\* A variant of getMeritHistory: the slice is taken before the filter.
getMeritHistorySliceFirst(data) ==
    IF Missing(data) THEN <<>>
    ELSE LET kept == SelectSeq(Take(data.v, Min(HistoryLength, Len(data.v))), IsExisting)
         IN  [i \in 1..Len(kept) |-> HistoryEntry(kept[i])]

getMeritHistory(data) ==
    IF Missing(data) THEN <<>>
    ELSE LET kept   == SelectSeq(data.v, IsExisting)
             mapped == [i \in 1..Len(kept) |-> HistoryEntry(kept[i])]
         IN  Take(mapped, Min(HistoryLength, Len(mapped)))

(***************************************************************************)
(* The category classifier, fetch-schools.ts:758-820.                      *)
(***************************************************************************)
\* array?.some(v => v.valueType === 'EXISTS'), undefined counting as false.
SomeExists(data) == ~Missing(data) /\ \E i \in 1..Len(data.v) : IsExisting(data.v[i])

hasGrade9Data(stats) ==
    \/ SomeExists(OptGet(stats, "averageGradesMeritRating9thGrade"))
    \/ SomeExists(OptGet(stats, "ratioOfPupilsIn9thGradeWithAllSubjectsPassed"))

hasGrade6Data(stats) ==
    \/ SomeExists(OptGet(stats, "ratioOfPupilsIn6thGradeWithAllSubjectsPassed"))
    \/ SomeExists(OptGet(stats, "averageResultNationalTestsSubjectSVE6thGrade"))

\* A variant of hasGymnasiumData: the program metrics are not looked at.
hasGymnasiumDataIgnored(gymStats) == FALSE

\* gymStats?.programMetrics && gymStats.programMetrics.length > 0
\* A body that the fetch phase passed through carries the length of its
\* programMetrics as `size`.
hasGymnasiumData(gymStats) ==
    IF gymStats # Null /\ "size" \in DOMAIN gymStats THEN gymStats.size > 0
    ELSE /\ ~Missing(OptGet(gymStats, "programMetrics"))
         /\ Len(OptGet(gymStats, "programMetrics").v) > 0

\* schooling.map(s => s.code)
SchoolingCodes(schooling) == [i \in 1..Len(schooling) |-> schooling[i].code]

\* schooling.find(s => s.code === 'gr')?.schoolYears || []
GrSchoolYears(schooling) ==
    IF \E i \in 1..Len(schooling) : schooling[i].code = "gr"
    THEN LET i == CHOOSE i \in 1..Len(schooling) :
                     schooling[i].code = "gr" /\ \A j \in 1..(i - 1) : schooling[j].code # "gr"
         IN  OrEmpty(Get(schooling[i], "schoolYears"))
    ELSE <<>>

\* The first check of determineCategory, lines 765-769.
IsGymnasium(name, codes, gymStats) ==
    \/ ArrayIncludes(codes, "gy")
    \/ StringIncludes(name, <<"g", "y", "m", "n", "a", "s", "i", "u", "m">>)
    \/ StringIncludes(name, <<"g", "y", "m", "n", "a", "s", "i", "e">>)
    \/ hasGymnasiumData(gymStats)

\* The second check, lines 771-774.
IsAnpassad(name, codes) ==
    \/ ArrayIncludes(codes, "gran")
    \/ StringIncludes(name, <<"a", "n", "p", "a", "s", "s", "a", "d">>)

\* Lines 795-819: the years of the 'gr' schooling, then the name, then the
\* presence of any statistics.
CategoryFallback(name, stats, schooling) ==
    LET grades       == GrSchoolYears(schooling)
        isGr         == ArrayIncludes(SchoolingCodes(schooling), "gr")
        hasGrade9    == ArrayIncludes(grades, "9")
        hasGrade6    == ArrayIncludes(grades, "6")
        hasLowGrades == \E i \in 1..Len(grades) : grades[i] \in {"1", "2", "3"}
    IN  IF isGr /\ hasGrade9 /\ hasLowGrades THEN "F-9"
        ELSE IF isGr /\ hasGrade9 THEN "7-9"
        ELSE IF isGr /\ (hasGrade6 \/ hasLowGrades) THEN "F-6"
        ELSE IF \/ StringIncludes(name, <<"f", "-", "9">>)
                \/ StringIncludes(name, <<"f", "endash", "9">>) THEN "F-9"
        ELSE IF \/ StringIncludes(name, <<"f", "-", "6">>)
                \/ StringIncludes(name, <<"f", "endash", "6">>)
                \/ StringIncludes(name, <<"f", "-", "3">>) THEN "F-6"
        ELSE IF \/ StringIncludes(name, <<"7", "-", "9">>)
                \/ StringIncludes(name, <<"h", "o-umlaut", "g", "s", "t", "a", "d", "i", "u", "m">>)
             THEN "7-9"
        ELSE IF stats # Null /\ KeysLength(stats) > 0 THEN "F-6"
        ELSE "other"

\* A variant of determineCategory: the statistics are looked at before the
\* special-needs signals.
determineCategoryStatsFirst(raw) ==
    LET name      == ToLowerCase(raw.compactData.schoolUnitName)
        stats     == raw.statistics
        gymStats  == raw.gymnasiumStatistics
        schooling == OrEmpty(OptGet(raw.details, "typeOfSchooling"))
        codes     == SchoolingCodes(schooling)
    IN  IF hasGrade9Data(stats) /\ hasGrade6Data(stats) THEN "F-9"
        ELSE IF hasGrade9Data(stats) THEN "7-9"
        ELSE IF hasGrade6Data(stats) THEN "F-6"
        ELSE IF IsGymnasium(name, codes, gymStats) THEN "gymnasium"
        ELSE IF IsAnpassad(name, codes) THEN "anpassad"
        ELSE CategoryFallback(name, stats, schooling)

determineCategory(raw) ==
    LET name      == ToLowerCase(raw.compactData.schoolUnitName)
        stats     == raw.statistics
        gymStats  == raw.gymnasiumStatistics
        schooling == OrEmpty(OptGet(raw.details, "typeOfSchooling"))
        codes     == SchoolingCodes(schooling)
    IN  IF IsGymnasium(name, codes, gymStats) THEN "gymnasium"
        ELSE IF IsAnpassad(name, codes) THEN "anpassad"
        ELSE IF hasGrade9Data(stats) /\ hasGrade6Data(stats) THEN "F-9"
        ELSE IF hasGrade9Data(stats) THEN "7-9"
        ELSE IF hasGrade6Data(stats) THEN "F-6"
        ELSE CategoryFallback(name, stats, schooling)

(***************************************************************************)
(* The statistic aggregator, fetch-schools.ts:822-849.                     *)
(***************************************************************************)
\* gymStats.programMetrics; a body that the fetch phase passed through holds
\* `size` program metrics, none of which carries an observation.
ProgramMetrics(gymStats) ==
    IF gymStats # Null /\ "size" \in DOMAIN gymStats
    THEN Defined([i \in 1..gymStats.size |-> [kind |-> "program", programCode |-> i]])
    ELSE OptGet(gymStats, "programMetrics")

\* The object that line 825 maps a program metric to.
Program(pm) ==
    [code |-> pm.programCode,
     universityEligibilityRate |->
        getMostRecentValue(Get(pm, "ratioOfStudentsEligibleForUndergraduateEducation")),
     gradePoints |-> getMostRecentValue(Get(pm, "gradesPointsForStudents")),
     graduationRate |-> getMostRecentValue(Get(pm, "ratioOfPupilsWithExamWithin3Years")),
     admissionPointsAvg |-> getMostRecentValue(Get(pm, "admissionPointsAverage")),
     admissionPointsMin |-> getMostRecentValue(Get(pm, "admissionPointsMin"))]

\* The filter of lines 832-837.
HasHeadline(p) ==
    p.universityEligibilityRate # Null \/ p.gradePoints # Null \/ p.graduationRate # Null

processGymnasiumPrograms(gymStats) ==
    IF Missing(ProgramMetrics(gymStats)) THEN <<>>
    ELSE LET metrics == ProgramMetrics(gymStats).v
         IN  SelectSeq([i \in 1..Len(metrics) |-> Program(metrics[i])], HasHeadline)

\* a + b for two numbers, brought to the same number of decimals.
Plus(a, b) ==
    LET f == IF a.frac < b.frac THEN b.frac ELSE a.frac
    IN  [nan |-> FALSE, mant |-> a.mant * Pow10(f - a.frac) + b.mant * Pow10(f - b.frac),
         frac |-> f]

\* values.reduce((a, b) => a + b, 0)
RECURSIVE SumOf(_)
SumOf(values) == IF values = <<>> THEN Zero ELSE Plus(SumOf(Front(values)), Last(values))

\* a / n for a number and a count that is not zero: mant / (10^frac * den).
Quotient(a, n) == [nan |-> FALSE, mant |-> a.mant, frac |-> a.frac, den |-> n]

NotNull(v) == v # Null

\* A variant of calculateGymnasiumAverage: the sum is divided by the number
\* of programs, a program without the field counting as zero.
calculateGymnasiumAverageOverAll(programs, field) ==
    LET validValues == SelectSeq([i \in 1..Len(programs) |-> programs[i][field]], NotNull)
    IN  IF Len(validValues) = 0 THEN Null
        ELSE Quotient(SumOf(validValues), Len(programs))

calculateGymnasiumAverage(programs, field) ==
    LET validValues == SelectSeq([i \in 1..Len(programs) |-> programs[i][field]], NotNull)
    IN  IF Len(validValues) = 0 THEN Null
        ELSE Quotient(SumOf(validValues), Len(validValues))

(***************************************************************************)
(* The normalization phase: main of process-data, lines 918-1014 of        *)
(* scripts/fetch-schools.ts.  main() has no await: it runs to its end, or  *)
(* to process.exit, in one step.                                           *)
(***************************************************************************)
\* A bound of ProcessSpec: the raw snapshots tried hold up to MaxRaw records.
MaxRaw == 2
\* A bound of ProcessSpec: the phase is run up to MaxRuns times on a snapshot.
MaxRuns == 2

\* The records the fetch phase can write for a unit: each piece fetched or null.
RawRecordsOf(unit) ==
    {[schoolUnitCode      |-> unit.schoolUnitCode,
      compactData         |-> unit,
      details             |-> d,
      statistics          |-> g,
      gymnasiumStatistics |-> y] :
        d \in {Null, PieceBody("details", unit.schoolUnitCode)},
        g \in {Null, PieceBody("statistics", unit.schoolUnitCode)},
        y \in {Null, PieceBody("gymnasiumStatistics", unit.schoolUnitCode)}}

\* A statistics block with one existing observation of the merit score, of the
\* grade-6 pass rate, or of both; an empty string stands for no observation.
Observation(text) == <<[value |-> text, valueType |-> "EXISTS", timePeriod |-> 2023]>>

GradedStatistics(merit, passRate6) ==
    [k \in {"kind"} \cup (IF merit = <<>> THEN {} ELSE {"averageGradesMeritRating9thGrade"})
                     \cup (IF passRate6 = <<>> THEN {}
                            ELSE {"ratioOfPupilsIn6thGradeWithAllSubjectsPassed"}) |->
        IF k = "kind" THEN "statistics"
        ELSE IF k = "averageGradesMeritRating9thGrade" THEN Observation(merit)
        ELSE Observation(passRate6)]

\* A raw record whose details were not found.
GradedRecord(k, statistics, gymnasiumStatistics) ==
    [schoolUnitCode      |-> Codes[k],
     compactData         |-> Unit(k, GoodLat, GoodLng, FALSE),
     details             |-> Null,
     statistics          |-> statistics,
     gymnasiumStatistics |-> gymnasiumStatistics]

\* Records of every category but anpassad, with merit scores 250, 310 and 320
\* and grade-6 pass rates 85,5 and 90.
GradedRecords ==
    {GradedRecord(3, GradedStatistics(<<"2", "5", "0">>, <<"9", "0">>), Null),
     GradedRecord(4, GradedStatistics(<<"3", "1", "0">>, <<"8", "5", ",", "5">>), Null),
     GradedRecord(5, GradedStatistics(<<"3", "2", "0">>, <<>>), Null),
     GradedRecord(6, GradedStatistics(<<>>, <<"8", "5", ",", "5">>), Null),
     GradedRecord(7, GradedStatistics(<<>>, <<"9", "0">>), Null),
     GradedRecord(8, Null, [kind |-> "gymnasiumStatistics",
                            programMetrics |-> <<[kind |-> "program", programCode |-> "NA"]>>])}

\* A detail record of a municipal school with a postal and a visiting address
\* and two schooling types, and one that holds the organizer type only.
FullDetails ==
    [kind |-> "details", code |-> Codes[9], principalOrganizerType |-> "Kommunal",
     contactInfo |->
        [kind |-> "contactInfo",
         addresses |-> <<[kind |-> "address", type |-> "POSTAL_ADDRESS", city |-> "Umea"],
                         [kind |-> "address", type |-> "VISITING_ADDRESS",
                          street |-> "Storgatan 1", zipCode |-> "22100", city |-> "Lund"]>>],
     typeOfSchooling |->
        <<[kind |-> "schooling", code |-> "gr", displayName |-> "Grundskolan",
           schoolYears |-> <<"9", "7", "8">>],
          [kind |-> "schooling", code |-> "fsk", displayName |-> "Forskoleklass",
           schoolYears |-> <<"0", "7">>]>>]

BareDetails == [kind |-> "details", code |-> Codes[10], principalOrganizerType |-> "Enskild"]

DetailedRecords ==
    {[GradedRecord(9, Null, Null) EXCEPT !.details = FullDetails],
     [GradedRecord(10, Null, Null) EXCEPT !.details = BareDetails]}

\* A record with a merit score of 240 and two programs: one with an
\* eligibility rate of 80, one with grade points of 14,5.
ProgramRecord ==
    GradedRecord(2, GradedStatistics(<<"2", "4", "0">>, <<>>),
                 [kind |-> "gymnasiumStatistics",
                  programMetrics |->
                     <<[kind |-> "program", programCode |-> "NA",
                        ratioOfStudentsEligibleForUndergraduateEducation |->
                           Observation(<<"8", "0">>)],
                       [kind |-> "program", programCode |-> "TE",
                        gradesPointsForStudents |-> Observation(<<"1", "4", ",", "5">>)]>>])

\* The raw records tried are those of the first unit of the catalog that
\* passes the filter of the fetch phase, the graded records, the detailed
\* records and the record with programs.
RawUniverse ==
    RawRecordsOf(FilterValid(Catalog)[1]) \cup GradedRecords \cup DetailedRecords
    \cup {ProgramRecord}

RawSnapshots == UNION {[1..n -> RawUniverse] : n \in 0..MaxRaw}

\* A processed snapshot left by an earlier run.
OldProcessed == [metadata |-> [fetchedAt |-> 0, processedAt |-> 0, totalSchools |-> 0],
                 schools |-> <<>>]

\* A variant of RawDataExists: the check of line 923 is skipped.
RawDataAssumed(fs) == TRUE

\* fs.existsSync(rawDataPath)
RawDataExists(fs) == fs.raw.exists

\* The message of line 924.
RawMissingMessage == "Raw data file not found. Run \"pnpm run fetch-data\" first."

\* statistics?.name, as the argument of a value function.
Metric(statistics, name) == OptGet(statistics, name)

\* a ?? b
Coalesce(a, b) == IF a # Null THEN a ELSE b

\* details?.contactInfo?.addresses?.find(a => a.type === 'VISITING_ADDRESS')
VisitingAddress(details) ==
    LET contact   == OptGet(details, "contactInfo")
        addresses == IF Missing(contact) THEN Undefined ELSE Get(contact.v, "addresses")
    IN  IF Missing(addresses) \/ ~\E i \in 1..Len(addresses.v) :
                                     addresses.v[i].type = "VISITING_ADDRESS"
        THEN Undefined
        ELSE Defined(addresses.v[CHOOSE i \in 1..Len(addresses.v) :
                        /\ addresses.v[i].type = "VISITING_ADDRESS"
                        /\ \A j \in 1..(i - 1) : addresses.v[j].type # "VISITING_ADDRESS"])

\* visitingAddress?.name || fallback, for a string.
AddressField(visiting, name, fallback) ==
    LET v == IF Missing(visiting) THEN Undefined ELSE Get(visiting.v, name)
    IN  IF Missing(v) \/ v.v = "" THEN fallback ELSE v.v

\* A variant of Ownership: an entity without a detail record is municipal.
OwnershipMunicipalByDefault(details) ==
    LET organizer == OptGet(details, "principalOrganizerType")
    IN  IF Missing(organizer) \/ organizer.v = "Kommunal" THEN "municipal" ELSE "independent"

\* details?.principalOrganizerType === 'Kommunal' ? 'municipal' : 'independent'
Ownership(details) ==
    LET organizer == OptGet(details, "principalOrganizerType")
    IN  IF ~Missing(organizer) /\ organizer.v = "Kommunal" THEN "municipal" ELSE "independent"

\* details?.typeOfSchooling?.map(s => s.displayName) || []
SchoolTypes(details) ==
    LET schooling == OrEmpty(OptGet(details, "typeOfSchooling"))
    IN  [i \in 1..Len(schooling) |-> schooling[i].displayName]

\* details?.typeOfSchooling?.flatMap(s => s.schoolYears) || []
RECURSIVE FlatYears(_)
FlatYears(schooling) ==
    IF schooling = <<>> THEN <<>>
    ELSE Head(schooling).schoolYears \o FlatYears(Tail(schooling))

\* [...new Set(list)]: the first occurrence of each element, in order.
RECURSIVE Unique(_)
Unique(list) ==
    IF list = <<>> THEN <<>>
    ELSE LET front == Unique(Front(list))
         IN  IF ArrayIncludes(front, Last(list)) THEN front ELSE Append(front, Last(list))

\* a === '0' ? -1 : parseInt(a) || 99, for a label of one character.
GradeRank(a) ==
    IF a = "0" THEN 0 - 1
    ELSE IF IsDigit(a) /\ DigitValue(a) # 0 THEN DigitValue(a) ELSE 99

RECURSIVE InsertGrade(_, _)
InsertGrade(sorted, x) ==
    IF sorted = <<>> THEN <<x>>
    ELSE IF GradeRank(Last(sorted)) - GradeRank(x) <= 0 THEN Append(sorted, x)
    ELSE Append(InsertGrade(Front(sorted), x), Last(sorted))

\* list.sort((a, b) => numA - numB)
RECURSIVE SortGrades(_)
SortGrades(list) ==
    IF list = <<>> THEN <<>> ELSE InsertGrade(SortGrades(Front(list)), Last(list))

\* uniqueGrades
UniqueGrades(details) ==
    SortGrades(Unique(FlatYears(OrEmpty(OptGet(details, "typeOfSchooling")))))

\* getMostRecentValue(statistics?.name) ?? getMostRecentValue(gymnasiumStatistics?.name)
CommonFigure(raw, name) ==
    Coalesce(getMostRecentValue(Metric(raw.statistics, name)),
             getMostRecentValue(Metric(raw.gymnasiumStatistics, name)))

\* processSchoolData: the School built from a raw record.
processSchoolData(raw) ==
    LET visitingAddress == VisitingAddress(raw.details)
        programs        == processGymnasiumPrograms(raw.gymnasiumStatistics)
    IN
    [id |-> raw.compactData.schoolUnitCode,
     name |-> raw.compactData.schoolUnitName,
     coordinates |-> <<ParseFloat(raw.compactData.wgs84Latitude),
                       ParseFloat(raw.compactData.wgs84Longitude)>>,
     municipality |-> AddressField(visitingAddress, "city", "Unknown"),
     ownership |-> Ownership(raw.details),
     category |-> determineCategory(raw),
     schoolTypes |-> SchoolTypes(raw.details),
     grades |-> UniqueGrades(raw.details),
     address |-> [street     |-> AddressField(visitingAddress, "street", ""),
                  postalCode |-> AddressField(visitingAddress, "zipCode", ""),
                  city       |-> AddressField(visitingAddress, "city", "")],
     statistics |->
        [meritValue |->
            getMostRecentValue(Metric(raw.statistics, "averageGradesMeritRating9thGrade")),
         meritHistory |->
            getMeritHistory(Metric(raw.statistics, "averageGradesMeritRating9thGrade")),
         passRateGrade9 |->
            getMostRecentValue(Metric(raw.statistics, "ratioOfPupilsIn9thGradeWithAllSubjectsPassed")),
         passRateGrade6 |->
            getMostRecentValue(Metric(raw.statistics, "ratioOfPupilsIn6thGradeWithAllSubjectsPassed")),
         avgTestSwedish6 |->
            getMostRecentValue(Metric(raw.statistics, "averageResultNationalTestsSubjectSVE6thGrade")),
         avgTestEnglish6 |->
            getMostRecentValue(Metric(raw.statistics, "averageResultNationalTestsSubjectENG6thGrade")),
         avgTestMath6 |->
            getMostRecentValue(Metric(raw.statistics, "averageResultNationalTestsSubjectMA6thGrade")),
         universityEligibilityRate |->
            calculateGymnasiumAverage(programs, "universityEligibilityRate"),
         gradePoints |-> calculateGymnasiumAverage(programs, "gradePoints"),
         graduationRate |-> calculateGymnasiumAverage(programs, "graduationRate"),
         programs |-> programs,
         studentsPerTeacher |-> CommonFigure(raw, "studentsPerTeacherQuota"),
         certifiedTeachersRatio |-> CommonFigure(raw, "certifiedTeachersQuota"),
         totalPupils |-> CommonFigure(raw, "totalNumberOfPupils")]]

\* A variant of ProcessAll: the first record is skipped.
ProcessAllButFirst(raws) ==
    [n \in 1..(Len(raws) - 1) |-> processSchoolData(raws[n + 1])]

\* for (const raw of rawData) schools.push(processSchoolData(raw))
ProcessAll(raws) == [n \in 1..Len(raws) |-> processSchoolData(raws[n])]

Categories == {"F-9", "7-9", "F-6", "gymnasium", "anpassad", "other"}

\* catOrder of the comparator.
catOrder(category) ==
    CASE category = "F-9" -> 0
      [] category = "7-9" -> 1
      [] category = "F-6" -> 2
      [] category = "gymnasium" -> 3
      [] category = "anpassad" -> 4
      [] category = "other" -> 5

\* aMerit and bMerit of the comparator.
MeritOf(school) ==
    Coalesce(school.statistics.meritValue, Coalesce(school.statistics.passRateGrade6, Zero))

\* A variant of Compare: the merit is compared in ascending order.
CompareAscending(a, b) ==
    IF catOrder(a.category) # catOrder(b.category)
    THEN catOrder(a.category) - catOrder(b.category)
    ELSE Minus(MeritOf(a), MeritOf(b))

\* The comparator of schools.sort: negative when a goes first.
Compare(a, b) ==
    IF catOrder(a.category) # catOrder(b.category)
    THEN catOrder(a.category) - catOrder(b.category)
    ELSE Minus(MeritOf(b), MeritOf(a))

\* x is put behind every element that does not go after it.
RECURSIVE Insert(_, _)
Insert(sorted, x) ==
    IF sorted = <<>> THEN <<x>>
    ELSE IF Compare(Last(sorted), x) <= 0 THEN Append(sorted, x)
    ELSE Append(Insert(Front(sorted), x), Last(sorted))

\* schools.sort(comparator): Array.prototype.sort is stable.
RECURSIVE Sort(_)
Sort(list) == IF list = <<>> THEN <<>> ELSE Insert(Sort(Front(list)), Last(list))

\* fetchedAt: the one of fetch-metadata.json when the file exists, else now.
FetchedAt(fs) == IF fs.meta.exists THEN Content(fs.meta).fetchedAt ELSE clock

HasMerit(school) == school.statistics.meritValue # Null
HasPrograms(school) == Len(school.statistics.programs) > 0
HasGrade6(school) ==
    school.statistics.passRateGrade6 # Null \/ school.statistics.avgTestSwedish6 # Null

\* The output object: the metadata and the sorted schools.
Output(fs, list) ==
    [metadata |-> [fetchedAt |-> FetchedAt(fs), processedAt |-> clock,
                   totalSchools |-> Len(list),
                   byCategory |->
                      [c \in Categories |->
                          Cardinality({n \in 1..Len(list) : list[n].category = c})],
                   withMeritData |-> Count(list, HasMerit),
                   withGrade6Data |-> Count(list, HasGrade6),
                   withGymnasiumData |-> Count(list, HasPrograms)],
     schools |-> list]

ProcessInit ==
    /\ clock = 1 /\ call = NoCall /\ ret = NoReturn /\ search = Mounted
    /\ rCall = IdleCall /\ rLog = <<>>
    /\ pc = "idle" /\ page = 0 /\ totalPages = 0 /\ schools = <<>>
    /\ listCall = IdleCall /\ pageLog = <<>> /\ schoolsWithCoords = <<>> /\ cursor = 0
    /\ tasks = <<>> /\ rawData = <<>> /\ requested = {}
    /\ \E r \in {NoFile} \cup {File(x) : x \in RawSnapshots},
          m \in {NoFile, File([FetchMetadata(<<>>) EXCEPT !.fetchedAt = 0])},
          o \in {NoFile, File(OldProcessed)} :
          files = [compact |-> NoFile, raw |-> r, meta |-> m, processed |-> o]
    /\ exitCode = Running /\ stderr = <<>> /\ faults = 0
    /\ ppc = "start" /\ normalized = <<>>

\* main() of the normalization phase.
ProcessMain ==
    /\ ppc = "start"
    /\ ppc' = "exited"
    /\ IF ~RawDataExists(files) THEN
            \* console.error(...); process.exit(1)
            /\ stderr' = Append(stderr, RawMissingMessage)
            /\ exitCode' = Exited(1)
            /\ UNCHANGED <<files, normalized>>
       ELSE IF ~files.raw.exists THEN
            \* fs.readFileSync throws: main() rejects, .catch(console.error)
            /\ stderr' = Append(stderr, "ENOENT")
            /\ exitCode' = Exited(ExitStatusAfterMain(TRUE))
            /\ UNCHANGED <<files, normalized>>
       ELSE
            /\ normalized' = Sort(ProcessAll(Content(files.raw)))
            /\ files' = [files EXCEPT !.processed = File(Output(files, normalized'))]
            /\ exitCode' = Exited(ExitStatusAfterMain(FALSE))
            /\ UNCHANGED stderr
    /\ UNCHANGED <<retryVars, fetchVars, clock, call, ret, search>>

\* The phase is run again, later, on the files the run before it left.
Rerun ==
    /\ ppc = "exited"
    /\ clock < MaxRuns
    /\ clock' = clock + 1
    /\ ppc' = "start"
    /\ normalized' = <<>>
    /\ exitCode' = Running
    /\ stderr' = <<>>
    /\ UNCHANGED <<retryVars, fetchVars, files, call, ret, search>>

ProcessNext == ProcessMain \/ Rerun

ProcessSpec == ProcessInit /\ [][ProcessNext]_vars

\* C10: when the normalization phase starts and the raw snapshot does not
\* exist, it prints the instruction to rerun the fetch phase and exits with
\* status 1; no record is processed and no file is created or changed.
C10_RawMissingFailsFast ==
    [][(ppc = "start" /\ ~files.raw.exists)
          => /\ ppc' = "exited"
             /\ exitCode' = Exited(1)
             /\ stderr' = <<RawMissingMessage>>
             /\ normalized' = <<>>
             /\ files' = files]_vars

\* The run ended with status 1 and an earlier processed snapshot is still there.
C10_Witness ==
    /\ ppc = "exited"
    /\ ~files.raw.exists
    /\ exitCode = Exited(1)
    /\ files.processed = File(OldProcessed)

\* Two processed snapshots are equal in every field but metadata.processedAt.
SameButProcessedAt(a, b) ==
    /\ a.schools = b.schools
    /\ [a.metadata EXCEPT !.processedAt = 0] = [b.metadata EXCEPT !.processedAt = 0]

\* C11: a second run of the normalization phase on the same raw snapshot, with
\* or without a fetch-metadata file, writes a processed snapshot equal to the
\* one of the first run in every field except metadata.processedAt.
C11_RerunIsIdentical ==
    [][(ppc = "start" /\ clock > 1 /\ files.raw.exists)
          => SameButProcessedAt(Content(files.processed), Content(files'.processed))]_vars

\* The rank of a category and the performance proxy of an entity.
CategoryOrder == <<"F-9", "7-9", "F-6", "gymnasium", "anpassad", "other">>

Rank(school) == CHOOSE r \in 1..Len(CategoryOrder) : CategoryOrder[r] = school.category

Proxy(school) ==
    IF school.statistics.meritValue # Null THEN school.statistics.meritValue
    ELSE IF school.statistics.passRateGrade6 # Null THEN school.statistics.passRateGrade6
    ELSE Zero

InOrder(a, b) ==
    /\ Rank(a) <= Rank(b)
    /\ Rank(a) = Rank(b) => Minus(Proxy(a), Proxy(b)) >= 0

DetailDefaults(school) ==
    /\ school.municipality = "Unknown"
    /\ school.ownership = "independent"
    /\ school.address = [street |-> "", postalCode |-> "", city |-> ""]
    /\ school.schoolTypes = <<>>
    /\ school.grades = <<>>

\* The positions of a list of raw records or of entities with an identifier.
RawWith(raws, code) == {i \in 1..Len(raws) : raws[i].schoolUnitCode = code}
EntitiesWith(list, code) == {j \in 1..Len(list) : list[j].id = code}

\* C23: every raw record whose detail piece is null yields exactly one entity,
\* with municipality Unknown, ownership independent, empty street, postal code
\* and city, no schooling type and no grade, and the phase ends normally.
C23_MissingDetailsAreDefaulted ==
    (ppc = "exited" /\ files.raw.exists) =>
        /\ exitCode = Exited(0)
        /\ stderr = <<>>
        /\ files.processed.exists
        /\ LET raws == Content(files.raw)
               out  == Content(files.processed).schools
           IN  /\ Len(out) = Len(raws)
               /\ \A i \in 1..Len(raws) :
                     LET code == raws[i].schoolUnitCode
                     IN  /\ Cardinality(EntitiesWith(out, code)) =
                               Cardinality(RawWith(raws, code))
                         /\ Cardinality({j \in EntitiesWith(out, code) : DetailDefaults(out[j])})
                               >= Cardinality({k \in RawWith(raws, code) : raws[k].details = Null})

\* A snapshot of a record without details and of a record with the details of
\* a municipal school in Lund has been processed: both are in the output.
C23_Witness ==
    /\ ppc = "exited"
    /\ files.raw.exists
    /\ LET raws == Content(files.raw)
           out  == Content(files.processed).schools
       IN  /\ \E i \in 1..Len(raws) : raws[i].details = Null
           /\ \E j \in 1..Len(out) : DetailDefaults(out[j])
           /\ \E j \in 1..Len(out) :
                 /\ out[j].municipality = "Lund"
                 /\ out[j].ownership = "municipal"
                 /\ out[j].address = [street |-> "Storgatan 1", postalCode |-> "22100",
                                      city |-> "Lund"]
                 /\ out[j].schoolTypes = <<"Grundskolan", "Forskoleklass">>
                 /\ out[j].grades = <<"0", "7", "8", "9">>

\* C27: in a processed snapshot an entity with a program, and so every
\* entity with an aggregated eligibility rate, grade points or graduation
\* rate, has the category gymnasium, and withGymnasiumData does not exceed
\* byCategory.gymnasium.
C27_ProgramsImplyGymnasium ==
    (ppc = "exited" /\ files.raw.exists) =>
        LET out  == Content(files.processed).schools
            meta == Content(files.processed).metadata
        IN  /\ \A j \in 1..Len(out) :
                  /\ (\/ out[j].statistics.universityEligibilityRate # Null
                      \/ out[j].statistics.gradePoints # Null
                      \/ out[j].statistics.graduationRate # Null)
                        => out[j].statistics.programs # <<>>
                  /\ out[j].statistics.programs # <<>> => out[j].category = "gymnasium"
            /\ meta.withGymnasiumData <= meta.byCategory["gymnasium"]

\* An entity with a merit score and two programs is a gymnasium, and another
\* gymnasium has no program.
C27_Witness ==
    /\ ppc = "exited"
    /\ files.raw.exists
    /\ LET out  == Content(files.processed).schools
           meta == Content(files.processed).metadata
       IN  /\ \E j \in 1..Len(out) :
                 /\ Len(out[j].statistics.programs) = 2
                 /\ out[j].statistics.meritValue # Null
                 /\ out[j].statistics.universityEligibilityRate # Null
                 /\ out[j].category = "gymnasium"
           /\ meta.withGymnasiumData = 1
           /\ meta.byCategory["gymnasium"] = 2

\* The sum of the counts of a set of categories.
RECURSIVE SumOfCounts(_, _)
SumOfCounts(counts, cats) ==
    IF cats = {} THEN 0
    ELSE LET c == CHOOSE c \in cats : TRUE
         IN  counts[c] + SumOfCounts(counts, cats \ {c})

\* C28: the normalization phase emits one entity per raw record: the entities
\* are a permutation, by identifier, of the raw records, each has one of the
\* six categories, and totalSchools is the number of raw records and the sum
\* of the six counts by category.
C28_OneEntityPerRecord ==
    (ppc = "exited" /\ files.raw.exists) =>
        LET raws == Content(files.raw)
            out  == Content(files.processed).schools
            meta == Content(files.processed).metadata
        IN  /\ Len(out) = Len(raws)
            /\ \A i \in 1..Len(raws) :
                  Cardinality(EntitiesWith(out, raws[i].schoolUnitCode)) =
                     Cardinality(RawWith(raws, raws[i].schoolUnitCode))
            /\ \A j \in 1..Len(out) :
                  /\ out[j].category \in Categories
                  /\ \E i \in 1..Len(raws) : raws[i].schoolUnitCode = out[j].id
            /\ DOMAIN meta.byCategory = Categories
            /\ \A c \in Categories :
                  meta.byCategory[c] = Cardinality({j \in 1..Len(out) : out[j].category = c})
            /\ meta.totalSchools = Len(raws)
            /\ meta.totalSchools = SumOfCounts(meta.byCategory, Categories)

\* Two records of two categories were processed, and the sort has put the
\* second record first.
C28_Witness ==
    /\ ppc = "exited"
    /\ files.raw.exists
    /\ LET raws == Content(files.raw)
           out  == Content(files.processed).schools
           meta == Content(files.processed).metadata
       IN  /\ Len(raws) = 2
           /\ out[1].id = raws[2].schoolUnitCode
           /\ out[2].id = raws[1].schoolUnitCode
           /\ out[1].category # out[2].category
           /\ meta.totalSchools = 2

(***************************************************************************)
(* ValueSpec: one call of parseSwedishNumber, getMostRecentValue or        *)
(* getMeritHistory on each argument of a bounded set.                      *)
(***************************************************************************)
\* The strings tried hold up to MaxStr characters.
MaxStr == 3
\* The observation sequences tried hold up to MaxObs entries.
MaxObs == 7

Alphabet == {"0", "2", ",", ".", "-", "a"}

Strings(n) == UNION {[1..k -> Alphabet] : k \in 0..n}

\* The examples of the documentation, besides every short string.
NumberTexts ==
    Strings(MaxStr) \cup {<<"2", "1", "7", ",", "6">>, <<"a", "b", "c">>}

\* An existing value, an existing entry that holds the sentinel, and an entry
\* that is not marked as existing.
ObsKinds ==
    {[value |-> <<"2", ",", "5">>, valueType |-> "EXISTS"],
     [value |-> <<"-">>,           valueType |-> "EXISTS"],
     [value |-> <<"7">>,           valueType |-> "MISSING"]}

\* The entry at position i: the source lists the newest period first.
Obs(kind, i) ==
    [value |-> kind.value, valueType |-> kind.valueType, timePeriod |-> 2024 - i]

EightExisting ==
    [i \in 1..8 |-> Obs([value |-> <<"2", ",", "5">>, valueType |-> "EXISTS"], i)]

\* The periods of a source that lists its entries in an order of its own.
Periods == 2022..2024

\* Sequences of existing entries whose periods come in any order.
AnyOrderSequences ==
    UNION {{[i \in 1..n |-> [value |-> <<"2", ",", "5">>, valueType |-> "EXISTS",
                             timePeriod |-> f[i]]] : f \in [1..n -> Periods]} : n \in 2..3}

ObsSequences ==
    UNION {{[i \in 1..n |-> Obs(f[i], i)] : f \in [1..n -> ObsKinds]} : n \in 0..MaxObs}
    \cup {EightExisting} \cup AnyOrderSequences

Call(fn, arg) == [fn |-> fn, arg |-> arg]

ValueFunctions == {"parseSwedishNumber", "getMostRecentValue", "getMeritHistory"}

\* Every variable of the other specifications at rest.
AtRest ==
    /\ rCall = IdleCall /\ rLog = <<>>
    /\ pc = "idle" /\ page = 0 /\ totalPages = 0 /\ schools = <<>>
    /\ listCall = IdleCall /\ pageLog = <<>> /\ schoolsWithCoords = <<>> /\ cursor = 0
    /\ tasks = <<>> /\ rawData = <<>> /\ requested = {}
    /\ files = NoFiles
    /\ exitCode = Running /\ stderr = <<>> /\ faults = 0
    /\ ppc = "idle" /\ normalized = <<>> /\ clock = 0 /\ search = Mounted

ValueInit ==
    /\ AtRest
    /\ \/ \E fn \in ValueFunctions : call = Call(fn, Undefined)
       \/ \E v \in NumberTexts : call = Call("parseSwedishNumber", Defined(v))
       \/ \E fn \in {"getMostRecentValue", "getMeritHistory"}, d \in ObsSequences :
             call = Call(fn, Defined(d))
    /\ ret = NoReturn

Returns(fn, value) ==
    /\ call.fn = fn
    /\ ret = NoReturn
    /\ ret' = Return(value)
    /\ UNCHANGED <<retryVars, fetchVars, osVars, ppc, normalized, clock, call, search>>

ParseSwedishNumberCall == Returns("parseSwedishNumber", parseSwedishNumber(call.arg))

GetMostRecentValueCall == Returns("getMostRecentValue", getMostRecentValue(call.arg))

GetMeritHistoryCall == Returns("getMeritHistory", getMeritHistory(call.arg))

ValueNext == ParseSwedishNumberCall \/ GetMostRecentValueCall \/ GetMeritHistoryCall

ValueSpec == ValueInit /\ [][ValueNext]_vars

Returned(fn) == call.fn = fn /\ ret # NoReturn

\* The positions of the entries marked EXISTS.
Existing(data) ==
    IF Missing(data) THEN {} ELSE {i \in 1..Len(data.v) : data.v[i].valueType = "EXISTS"}

\* The position of the n-th entry marked EXISTS.
NthExisting(data, n) ==
    CHOOSE i \in Existing(data) : Cardinality({j \in Existing(data) : j <= i}) = n

\* C18: getMostRecentValue returns the parsed value of the first entry marked
\* EXISTS, whatever follows it and whatever unmarked entries precede it, and
\* null when no entry is marked or the sequence is missing or empty.
C18_FirstExistingValue ==
    Returned("getMostRecentValue") =>
        IF Existing(call.arg) = {} THEN ret.value = Null
        ELSE ret.value =
                parseSwedishNumber(Defined(call.arg.v[NthExisting(call.arg, 1)].value))

\* An unmarked entry is skipped, the first marked one is returned, and a
\* marked entry with another value follows it.
C18_Witness ==
    /\ Returned("getMostRecentValue")
    /\ Cardinality(Existing(call.arg)) >= 2
    /\ 1 \notin Existing(call.arg)
    /\ ret.value # Null
    /\ \E j \in Existing(call.arg) :
          parseSwedishNumber(Defined(call.arg.v[j].value)) # ret.value

\* A number as a text: an optional sign, digits with at most one decimal comma
\* or period among them, and nothing else.
IsNumberText(s) ==
    /\ ~Missing(s)
    /\ LET body == IF s.v # <<>> /\ Head(s.v) = "-" THEN Tail(s.v) ELSE s.v
       IN  /\ \E i \in 1..Len(body) : IsDigit(body[i])
           /\ \A i \in 1..Len(body) : IsDigit(body[i]) \/ body[i] \in {",", "."}
           /\ Cardinality({i \in 1..Len(body) : body[i] \in {",", "."}}) <= 1

\* C19: parseSwedishNumber returns null for a missing or empty value, for the
\* sentinels and for every string that is not a number, and the value of a
\* well-formed comma-decimal string: "217,6" gives 217.6.
C19_NonNumbersAreAbsent ==
    Returned("parseSwedishNumber") =>
        /\ ~IsNumberText(call.arg) => ret.value = Null
        /\ call.arg = Defined(<<"2", "1", "7", ",", "6">>) =>
              ret.value = [nan |-> FALSE, mant |-> 2176, frac |-> 1]

\* C20: getMeritHistory returns min(5, k) entries for a sequence with k entries
\* marked EXISTS, and they are the first min(5, k) such entries in the order
\* of the input; an unmarked entry never appears.
C20_HistoryIsFirstFiveExisting ==
    Returned("getMeritHistory") =>
        /\ Len(ret.value) = Min(5, Cardinality(Existing(call.arg)))
        /\ \A n \in 1..Len(ret.value) :
              ret.value[n].year = call.arg.v[NthExisting(call.arg, n)].timePeriod

\* More than five marked entries, an unmarked one among the first five
\* entries of the input, and a history of five.
C20_Witness ==
    /\ Returned("getMeritHistory")
    /\ Cardinality(Existing(call.arg)) > 5
    /\ Len(ret.value) = 5
    /\ Len(call.arg.v) < 8
    /\ \E i \in 1..5 : i \notin Existing(call.arg)

\* C21: the merit history is ordered newest-first for any observation
\* sequence the source supplies: the period of each entry is later than the
\* period of the entry after it.
C21_HistoryNewestFirst ==
    Returned("getMeritHistory") =>
        \A n \in 1..(Len(ret.value) - 1) : ret.value[n].year > ret.value[n + 1].year

\* The history keeps the order of the input: the entries of a source that is
\* ordered newest-first are ordered newest-first.
C21_HistoryKeepsSourceOrder ==
    (/\ Returned("getMeritHistory")
     /\ \A i, j \in Existing(call.arg) :
           i < j => call.arg.v[i].timePeriod > call.arg.v[j].timePeriod)
    => \A n \in 1..(Len(ret.value) - 1) : ret.value[n].year > ret.value[n + 1].year

(***************************************************************************)
(* CategorySpec: one call of determineCategory on each raw record of a     *)
(* set that combines names, schooling types, primary-stage statistics and  *)
(* secondary-stage statistics.                                             *)
(***************************************************************************)
Names ==
    {<<"S", "k", "o", "l", "a">>,
     <<"G", "y", "m", "n", "a", "s", "i", "u", "m">>,
     <<"S", "g", "y", "m", "n", "a", "s", "i", "e", "t">>,
     <<"A", "n", "p", "a", "s", "s", "a", "d">>,
     <<"F", "-", "9">>,
     <<"f", "endash", "6">>,
     <<"7", "-", "9">>,
     <<"H", "o-umlaut", "g", "s", "t", "a", "d", "i", "u", "m">>}

\* A TypeOfSchooling record.
Schooling(code, years) == [kind |-> "schooling", code |-> code, displayName |-> code,
                           schoolYears |-> years]

SchoolingLists ==
    {<<>>,
     <<Schooling("gy", <<"1", "2", "3">>)>>,
     <<Schooling("gran", <<"1", "2", "3">>)>>,
     <<Schooling("gr", <<"7", "8", "9">>)>>,
     <<Schooling("gr", <<"1", "6", "9">>)>>,
     <<Schooling("gr", <<"4", "5", "6">>)>>}

\* The detail record: missing, without schooling types, or with a list of them.
DetailBodies ==
    {Null, [kind |-> "details", code |-> "A"]}
    \cup {[kind |-> "details", code |-> "A", typeOfSchooling |-> t] : t \in SchoolingLists}

Grade9Metrics ==
    {"averageGradesMeritRating9thGrade", "ratioOfPupilsIn9thGradeWithAllSubjectsPassed"}

Grade6Metrics ==
    {"ratioOfPupilsIn6thGradeWithAllSubjectsPassed",
     "averageResultNationalTestsSubjectSVE6thGrade",
     "averageResultNationalTestsSubjectENG6thGrade",
     "averageResultNationalTestsSubjectMA6thGrade"}

\* A statistics block that holds the observations obs under each key of keys.
StatisticsBlock(keys, obs) ==
    [k \in keys \cup {"kind"} |-> IF k = "kind" THEN "statistics" ELSE obs]

ExistingObs == <<Obs([value |-> <<"2", ",", "5">>, valueType |-> "EXISTS"], 1)>>
UnmarkedObs == <<Obs([value |-> <<".">>, valueType |-> "MISSING"], 1)>>

\* The primary-stage statistics: missing, any set of grade metrics with an
\* existing observation, every grade metric without one, and a block that
\* holds no grade metric.
StatisticsBodies ==
    {Null}
    \cup {StatisticsBlock(keys, ExistingObs) : keys \in SUBSET (Grade9Metrics \cup Grade6Metrics)}
    \cup {StatisticsBlock(Grade9Metrics \cup Grade6Metrics, UnmarkedObs),
          StatisticsBlock({"totalNumberOfPupils"}, ExistingObs)}

\* The secondary-stage statistics: missing, without programs, with one.
GymnasiumBodies ==
    {Null,
     [kind |-> "gymnasiumStatistics", programMetrics |-> <<>>],
     [kind |-> "gymnasiumStatistics",
      programMetrics |-> <<[kind |-> "program", programCode |-> "NA"]>>]}

Named(unit, name) == [unit EXCEPT !.schoolUnitName = name]

RawRecords ==
    {[schoolUnitCode      |-> "A",
      compactData         |-> Named(Unit(1, GoodLat, GoodLng, FALSE), n),
      details             |-> d,
      statistics          |-> g,
      gymnasiumStatistics |-> y] :
        n \in Names, d \in DetailBodies, g \in StatisticsBodies, y \in GymnasiumBodies}

CategoryInit ==
    /\ AtRest
    /\ \E raw \in RawRecords : call = Call("determineCategory", raw)
    /\ ret = NoReturn

DetermineCategoryCall == Returns("determineCategory", determineCategory(call.arg))

CategoryNext == DetermineCategoryCall

CategorySpec == CategoryInit /\ [][CategoryNext]_vars

\* The statistics of the record hold an existing observation of one of the
\* metrics.
Observed(raw, metrics) ==
    \E k \in metrics : SomeExists(OptGet(raw.statistics, k))

LowerName(raw) == ToLowerCase(raw.compactData.schoolUnitName)

SchoolingOf(raw) == OrEmpty(OptGet(raw.details, "typeOfSchooling"))

\* The upper-secondary signal: a schooling type 'gy', a name that holds
\* 'gymnasium' or 'gymnasie', or a program-metric list that is not empty.
GymnasiumSignal(raw) ==
    \/ \E i \in 1..Len(SchoolingOf(raw)) : SchoolingOf(raw)[i].code = "gy"
    \/ StringIncludes(LowerName(raw), <<"g", "y", "m", "n", "a", "s", "i", "u", "m">>)
    \/ StringIncludes(LowerName(raw), <<"g", "y", "m", "n", "a", "s", "i", "e">>)
    \/ /\ raw.gymnasiumStatistics # Null
       /\ "programMetrics" \in DOMAIN raw.gymnasiumStatistics
       /\ raw.gymnasiumStatistics.programMetrics # <<>>

\* The special-needs signal.
SpecialNeedsSignal(raw) ==
    \/ \E i \in 1..Len(SchoolingOf(raw)) : SchoolingOf(raw)[i].code = "gran"
    \/ StringIncludes(LowerName(raw), <<"a", "n", "p", "a", "s", "s", "a", "d">>)

\* C14: an entity with an existing observation of a grade-9 metric and of a
\* grade-6 metric is classified F-9, whatever its name holds.
C14_BothGradesGiveF9 ==
    (/\ Returned("determineCategory")
     /\ Observed(call.arg, Grade9Metrics)
     /\ Observed(call.arg, Grade6Metrics)) => ret.value = "F-9"

\* C15: an entity with an upper-secondary signal is classified gymnasium,
\* whatever its statistics, special-needs signals, schooling years and name.
C15_GymnasiumSignalWins ==
    (Returned("determineCategory") /\ GymnasiumSignal(call.arg)) => ret.value = "gymnasium"

\* The only upper-secondary signal is the name, and the entity has grade-9
\* and grade-6 observations, a special-needs schooling type: gymnasium.
C15_Witness ==
    /\ Returned("determineCategory")
    /\ GymnasiumSignal(call.arg)
    /\ call.arg.gymnasiumStatistics = Null
    /\ \E i \in 1..Len(SchoolingOf(call.arg)) : SchoolingOf(call.arg)[i].code = "gran"
    /\ Observed(call.arg, Grade9Metrics)
    /\ Observed(call.arg, Grade6Metrics)
    /\ ret.value = "gymnasium"

\* C16: without an upper-secondary or a special-needs signal, existing
\* observations of a grade-9 and of a grade-6 metric (pass rate or any of the
\* three subject tests) give F-9, of grade 9 only 7-9, of grade 6 only F-6.
C16_StatisticsDecide ==
    (/\ Returned("determineCategory")
     /\ ~GymnasiumSignal(call.arg)
     /\ ~SpecialNeedsSignal(call.arg)) =>
        /\ (Observed(call.arg, Grade9Metrics) /\ Observed(call.arg, Grade6Metrics))
              => ret.value = "F-9"
        /\ (Observed(call.arg, Grade9Metrics) /\ ~Observed(call.arg, Grade6Metrics))
              => ret.value = "7-9"
        /\ (~Observed(call.arg, Grade9Metrics) /\ Observed(call.arg, Grade6Metrics))
              => ret.value = "F-6"

\* C17: an entity with an existing observation of any grade-9 or grade-6
\* metric is never classified as other.
C17_GradeDataIsNeverOther ==
    (/\ Returned("determineCategory")
     /\ Observed(call.arg, Grade9Metrics \cup Grade6Metrics)) => ret.value # "other"

\* The only signal of the entity is an existing observation of the grade-6
\* mathematics test, which the statistics step does not look at.
C17_Witness ==
    /\ Returned("determineCategory")
    /\ call.arg.statistics =
          StatisticsBlock({"averageResultNationalTestsSubjectMA6thGrade"}, ExistingObs)
    /\ call.arg.details = Null
    /\ call.arg.gymnasiumStatistics = Null
    /\ call.arg.compactData.schoolUnitName = <<"S", "k", "o", "l", "a">>
    /\ ret.value = "F-6"

(***************************************************************************)
(* PipelineSpec: the fetch phase, then the normalization phase on the      *)
(* files it wrote.  Units may be registered while the listing is paged:    *)
(* each new unit goes to the head of the listing and moves the others one  *)
(* place down, so a page may be served from a catalog that has grown since *)
(* the page before it.  The server gives at most one faulty answer.        *)
(***************************************************************************)
\* The catalog after k units were registered.
GrownCatalog(k) ==
    [i \in 1..k |-> Unit(batchSize + 4 + i, GoodLat, GoodLng, FALSE)] \o Catalog

\* The units of page p (from 0) of the grown catalog.
GrownPage(p, k) ==
    SubSeq(GrownCatalog(k), Min(p * PerPage, Len(GrownCatalog(k))) + 1,
           Min((p + 1) * PerPage, Len(GrownCatalog(k))))

GrownListAnswers(p) ==
    {Success(ListBody(TRUE, GrownPage(p, k), TRUE, tp)) : k \in 1..PerPage, tp \in 1..MaxPages}

PipelineInit ==
    /\ rCall = IdleCall /\ rLog = <<>>
    /\ pc = "start" /\ page = 0 /\ totalPages = 0 /\ schools = <<>>
    /\ listCall = IdleCall /\ pageLog = <<>> /\ schoolsWithCoords = <<>> /\ cursor = 0
    /\ tasks = <<>> /\ rawData = <<>> /\ requested = {}
    /\ files = NoFiles
    /\ exitCode = Running /\ stderr = <<>> /\ faults = MaxFaults - 1
    /\ ppc = "start" /\ normalized = <<>>
    /\ clock = 0 /\ call = NoCall /\ ret = NoReturn /\ search = Mounted

\* The server answers a listing request after the first from the grown catalog.
ListSettleGrown ==
    /\ pc = "listing" /\ InFlight(listCall) /\ page > 0
    /\ \E r \in GrownListAnswers(page) : ListingStep(OnSettled(listCall, r))
    /\ UNCHANGED <<retryVars, procVars, schoolsWithCoords, cursor, tasks, rawData,
                   requested, faults>>

\* The normalization phase is run once the fetch phase has ended.
ProcessFetched ==
    /\ pc = "done"
    /\ ProcessMain

PipelineNext == Next \/ ListSettleGrown \/ ProcessFetched

PipelineSpec == PipelineInit /\ [][PipelineNext]_vars

\* C12: in the processed snapshot that the two phases produce, no two entities
\* share an identifier, whatever pages the listing returned.
C12_IdentifiersAreUnique ==
    (pc = "done" /\ ppc = "exited" /\ files.processed.exists) =>
        \A i, j \in 1..Len(Content(files.processed).schools) :
            i # j => Content(files.processed).schools[i].id
                        # Content(files.processed).schools[j].id

(***************************************************************************)
(* AggregateSpec: one call of processGymnasiumPrograms on each secondary-  *)
(* stage statistics body of a bounded set, or of calculateGymnasiumAverage *)
(* on the programs of such a body.                                         *)
(***************************************************************************)
\* The bodies tried hold up to MaxPrograms program metrics.
MaxPrograms == 3

\* What a program metric may hold for the eligibility rate: nothing, 80, 60,
\* or an existing entry with the sentinel; for the grade points: nothing or
\* 14,5; for the graduation rate: nothing or 90.
EligibilityTexts == {<<>>, <<"8", "0">>, <<"6", "0">>, <<"-">>}
GradePointTexts == {<<>>, <<"1", "4", ",", "5">>}

HeadlineTexts ==
    {[universityEligibilityRate |-> e, gradePoints |-> g, graduationRate |-> <<>>] :
        e \in EligibilityTexts, g \in GradePointTexts}
    \cup {[universityEligibilityRate |-> <<>>, gradePoints |-> <<>>,
           graduationRate |-> <<"9", "0">>],
          [universityEligibilityRate |-> <<"8", "0">>, gradePoints |-> <<"1", "4", ",", "5">>,
           graduationRate |-> <<"9", "0">>]}

HeadlineKeys ==
    [universityEligibilityRate |-> "ratioOfStudentsEligibleForUndergraduateEducation",
     gradePoints |-> "gradesPointsForStudents",
     graduationRate |-> "ratioOfPupilsWithExamWithin3Years"]

HeadlineFields == DOMAIN HeadlineKeys

\* A program metric: an empty text stands for a key that is not there.
ProgramMetric(texts) ==
    [k \in {"kind", "programCode"} \cup {HeadlineKeys[f] : f \in {g \in HeadlineFields : texts[g] # <<>>}} |->
        IF k = "kind" THEN "program"
        ELSE IF k = "programCode" THEN "NA"
        ELSE Observation(texts[CHOOSE f \in HeadlineFields : HeadlineKeys[f] = k])]

ProgramMetricsTried == {ProgramMetric(texts) : texts \in HeadlineTexts}

GymnasiumStatistics(metrics) == [kind |-> "gymnasiumStatistics", programMetrics |-> metrics]

\* null, a body without programMetrics, and bodies with 0..MaxPrograms of them.
AggregateBodies ==
    {Null, [kind |-> "gymnasiumStatistics"]}
    \cup UNION {{GymnasiumStatistics(m) : m \in [1..n -> ProgramMetricsTried]} : n \in 0..MaxPrograms}

AggregateInit ==
    /\ AtRest
    /\ \/ \E b \in AggregateBodies : call = Call("processGymnasiumPrograms", b)
       \/ \E b \in AggregateBodies, f \in HeadlineFields :
             call = Call("calculateGymnasiumAverage",
                         [programs |-> processGymnasiumPrograms(b), field |-> f])
    /\ ret = NoReturn

ProcessGymnasiumProgramsCall ==
    Returns("processGymnasiumPrograms", processGymnasiumPrograms(call.arg))

CalculateGymnasiumAverageCall ==
    Returns("calculateGymnasiumAverage",
            calculateGymnasiumAverage(call.arg.programs, call.arg.field))

AggregateNext == ProcessGymnasiumProgramsCall \/ CalculateGymnasiumAverageCall

AggregateSpec == AggregateInit /\ [][AggregateNext]_vars

\* The programs of the call that have the field of the call.
Having == {i \in 1..Len(call.arg.programs) : call.arg.programs[i][call.arg.field] # Null}

\* The sum of the field over a set of programs, in tenths.
RECURSIVE TenthsOver(_)
TenthsOver(set) ==
    IF set = {} THEN 0
    ELSE LET i == CHOOSE i \in set : TRUE
             v == call.arg.programs[i][call.arg.field]
         IN  v.mant * Pow10(1 - v.frac) + TenthsOver(set \ {i})

ListingNext == Start \/ ListSettle \/ ListTimer \/ PageTimer

ListingSpec == Init /\ [][ListingNext]_vars /\ WF_vars(ListingNext)

ListingEnded == pc \in {"listed", "failed"}

\* The page indices requested so far.
PagesRequested == {u.page : u \in ListingUrls}

\* Page 0 is always requested, the indices requested are 0, 1, 2, ... without
\* a gap, the request in flight is for the highest of them, and a single page
\* is requested when no response carried a page count.
ListingInOrder ==
    /\ pc # "start" => 0 \in PagesRequested
    /\ PagesRequested = 0..(Cardinality(ListingUrls) - 1)
    /\ pc = "listing" => /\ listCall.url = ListUrl(page)
                         /\ listCall.url.page = Cardinality(ListingUrls) - 1
    /\ InFlight(listCall) => pc = "listing"
    /\ pc = "pageDelay" => listCall.st = "returned" /\ page = Cardinality(ListingUrls)
    /\ (pc = "listed" /\ \A k \in 1..Len(pageLog) : pageLog[k] = 0)
          => PagesRequested = {0}

\* A call of fetchWithRetry is made only for the page after the last one, once
\* the call for that page has returned, and no call is made again for a page.
OneCallPerPage ==
    /\ listCall'.url # listCall.url
          => /\ listCall = IdleCall \/ listCall.st = "returned"
             /\ listCall'.i = 0
             /\ listCall'.url.page = Cardinality(ListingUrls)
             /\ listCall'.url \notin ListingUrls
    /\ listCall'.url = listCall.url => listCall'.i >= listCall.i

\* C26: fetchAllSchoolUnits terminates against every server whose reported
\* total-pages values are bounded; it requests the pages 0, 1, 2, ... in
\* increasing order, each through one fetchWithRetry call, one request at a
\* time, always page 0, and exactly one page when no response carries a page
\* count.
C26_ListingTerminatesInOrder ==
    /\ []ListingInOrder
    /\ [][OneCallPerPage]_vars
    /\ <>ListingEnded

\* The loop was left after three pages, one of which was retried.
C26_Witness ==
    /\ pc = "listed"
    /\ Len(pageLog) = 3
    /\ PagesRequested = {0, 1, 2}
    /\ faults > 0

(***************************************************************************)
(* SearchSpec: the AddressSearch component, AddressSearch.tsx:28-140,      *)
(* under every interleaving of keystrokes, clicks, the debounce timer and  *)
(* the answers of the geocoding service.  A call of searchAddress that     *)
(* awaits the service is a record of its number, its query and the await   *)
(* it stands at: "fetch" (line 71) or "json" (line 85).                    *)
(***************************************************************************)
\* The service is called up to MaxSearches times.
MaxSearches == 2

\* What the user may have in the field after a keystroke: nothing, two, three
\* or four characters.
Queries == {<<>>, <<"a", "b">>, <<"a", "b", "c">>, <<"a", "b", "c", "d">>}

\* A result of the service for the call numbered n, made with query q.  The
\* results tried hold no address and no comma in their display name.
Place(n, q) == [place_id |-> n, display_name |-> <<"L", "u", "n", "d">>, req |-> n, q |-> q]

\* The lists the service may answer the call r with.
Answers(r) == {<<>>, <<Place(r.id, r.q)>>}

\* displayName of handleSelect, lines 107-121: without an address, the first
\* two comma-separated parts of display_name.
DisplayName(result) == result.display_name

\* searchAddress(searchQuery) up to its first await, lines 52-71.
SearchAddress(s, q) ==
    IF Len(q) < 3
    THEN [s EXCEPT !.results = <<>>, !.isOpen = FALSE]
    ELSE [s EXCEPT !.isLoading = TRUE, !.error = NoError,
                   !.inFlight = @ \cup {[id |-> s.searches + 1, q |-> q, st |-> "fetch"]},
                   !.searches = @ + 1]

\* The catch and finally blocks of searchAddress, lines 88-93, for the call r.
SearchCatch(s, r) ==
    [s EXCEPT !.error = SearchFailed, !.results = <<>>, !.isLoading = FALSE,
              !.inFlight = @ \ {r}]

\* handleInputChange(value), lines 97-107: the pending timer is cleared and a
\* timer of 300 ms is started.
HandleInputChange ==
    /\ \E value \in Queries :
          search' = [search EXCEPT !.query = value,
                                   !.debounce = [pending |-> TRUE, value |-> value],
                                   !.dismissed = FALSE]
    /\ UNCHANGED <<retryVars, fetchVars, osVars, ppc, normalized, clock, call, ret>>

\* The timer of line 104 fires: searchAddress(value).
DebounceFires ==
    /\ search.debounce.pending
    /\ Len(search.debounce.value) < 3 \/ search.searches < MaxSearches
    /\ search' = SearchAddress([search EXCEPT !.debounce = NoTimer], search.debounce.value)
    /\ UNCHANGED <<retryVars, fetchVars, osVars, ppc, normalized, clock, call, ret>>

\* fetch() of line 71 settles for a call: with a response that is ok, with one
\* that is not (line 81 throws), or with a rejection.
FetchSettles ==
    /\ \E r \in search.inFlight :
          /\ r.st = "fetch"
          /\ \/ search' = [search EXCEPT !.inFlight = (@ \ {r}) \cup {[r EXCEPT !.st = "json"]}]
             \/ search' = SearchCatch(search, r)
    /\ UNCHANGED <<retryVars, fetchVars, osVars, ppc, normalized, clock, call, ret>>

\* response.json() of line 85 settles for a call: with a list, lines 86-87 and
\* the finally block, or with a rejection.
JsonSettles ==
    /\ \E r \in search.inFlight :
          /\ r.st = "json"
          /\ \/ \E data \in Answers(r) :
                   search' = [search EXCEPT !.results = data, !.isOpen = Len(data) > 0,
                                            !.isLoading = FALSE, !.inFlight = @ \ {r}]
             \/ search' = SearchCatch(search, r)
    /\ UNCHANGED <<retryVars, fetchVars, osVars, ppc, normalized, clock, call, ret>>

\* handleSelect(result), lines 109-128, on a button of the list that is shown.
\* onLocationSelect belongs to the parent.
HandleSelect ==
    /\ search.isOpen /\ Len(search.results) > 0
    /\ \E i \in 1..Len(search.results) :
          search' = [search EXCEPT !.query = DisplayName(search.results[i]),
                                   !.isOpen = FALSE, !.results = <<>>,
                                   !.dismissed = TRUE]
    /\ UNCHANGED <<retryVars, fetchVars, osVars, ppc, normalized, clock, call, ret>>

\* handleClear, lines 130-134, on the button shown while nothing is loading
\* and the field is not empty.
HandleClear ==
    /\ ~search.isLoading /\ search.query # <<>>
    /\ search' = [search EXCEPT !.query = <<>>, !.results = <<>>, !.isOpen = FALSE,
                                !.dismissed = TRUE]
    /\ UNCHANGED <<retryVars, fetchVars, osVars, ppc, normalized, clock, call, ret>>

\* onFocus, line 145: results.length > 0 && setIsOpen(true)
HandleFocus ==
    /\ Len(search.results) > 0 /\ ~search.isOpen
    /\ search' = [search EXCEPT !.isOpen = TRUE]
    /\ UNCHANGED <<retryVars, fetchVars, osVars, ppc, normalized, clock, call, ret>>

\* handleClickOutside, lines 42-46.
HandleClickOutside ==
    /\ search.isOpen
    /\ search' = [search EXCEPT !.isOpen = FALSE]
    /\ UNCHANGED <<retryVars, fetchVars, osVars, ppc, normalized, clock, call, ret>>

SearchInit == AtRest /\ call = NoCall /\ ret = NoReturn

SearchNext ==
    \/ HandleInputChange
    \/ DebounceFires
    \/ FetchSettles
    \/ JsonSettles
    \/ HandleSelect
    \/ HandleClear
    \/ HandleFocus
    \/ HandleClickOutside

SearchSpec == SearchInit /\ [][SearchNext]_vars

\* The answer to an earlier call does not take the place of the results of a
\* later call.
NoStaleResults ==
    (Len(search.results) > 0 /\ Len(search'.results) > 0)
        => search'.results[1].req >= search.results[1].req

\* Since the user cleared the field or selected a result, and until the next
\* keystroke, the list is empty and closed.
StaysDismissed == search.dismissed => (search.results = <<>> /\ ~search.isOpen)

\* C30: the result list belongs to the most recent query: a response to an
\* earlier query never replaces the results of a later query, and once the
\* user has cleared the field or selected a result no pending timer and no
\* response in flight fills or opens the list again.
C30_ResultsOfLatestQuery == []StaysDismissed /\ [][NoStaleResults]_vars

====
